---- MODULE Spec2Model ----
(***************************************************************************)
(* Model of the Kalshi EV agent: EdgeDetector, RiskManager, PaperTrader    *)
(* and the TradingAgent cycle that connects them.                          *)
(*                                                                         *)
(* Units.  Prices and quotes are integer cents, as in the source.  Dollar  *)
(* amounts (balance, exposure, position size, daily loss) are kept in      *)
(* cents, i.e. the source's number times 100.  Probabilities are kept in   *)
(* units of 1/ProbScale.  JavaScript doubles are modelled by exact         *)
(* rationals [n, d]; rounding error of the doubles is not modelled.        *)
(***************************************************************************)
EXTENDS Integers, Sequences, FiniteSets, TLC

VARIABLES
    config,          \* AgentConfig.trading, fixed at construction
    mode,            \* TradingAgent.mode: "paper" or "live"; "api" when the
                     \* RiskManager is driven directly, without an agent
    running,         \* TradingAgent.running, the flag start() loops on
    pc,              \* where start() stands: the await it is suspended at
    pending,         \* signals of the current cycle still to dispatch
    batch,           \* one forecastBatch call: its position and its trace
    now,             \* Date.now(), milliseconds
    dailyLoss,       \* RiskManager.dailyLoss (cents)
    tradesThisHour,  \* RiskManager.tradesThisHour
    lastHourReset,   \* RiskManager.lastHourReset
    balance,         \* PaperTrader.balance (cents)
    positions,       \* PaperTrader.positions, in Map insertion order
    trades,          \* PaperTrader.trades
    ordered,         \* tickers on which a live order has been placed
    cycles,          \* number of runCycle calls so far
    ticks,           \* number of clock advances so far
    sigTimes,        \* history: the signals of the last two hourly windows
    audit,           \* history of a PaperTrader driven directly: the P&L
                     \* returned by settle so far and the fills behind
                     \* each open position
    call             \* what the step just taken did (observation)

vars == <<config, mode, running, pc, pending, batch, now, dailyLoss,
          tradesThisHour, lastHourReset, balance, positions, trades, ordered,
          cycles, ticks, sigTimes, audit, call>>

-----------------------------------------------------------------------------
(* Bounds of the exploration *)

MaxCycles == 2        \* runCycle calls of one agent
MaxAgentTicks == 1    \* clock advances while an agent runs
MaxTicks == 2         \* clock advances around a stand-alone RiskManager
MaxLossCalls == 1     \* size of the recorded total, in daily loss limits
MaxLedgerCalls == 4   \* execute and settle calls on a stand-alone PaperTrader
MaxArbMarkets == 3    \* markets in one findArbitrageOpportunities call
MaxLoopCycles == 3    \* cycles of one start() loop
MaxSignals == 2       \* signals dispatched in one cycle of the loop
MaxBatch == 2         \* markets handed to one forecastBatch call
MaxSelect == 4        \* markets handed to one selectDiverseCandidates call

-----------------------------------------------------------------------------
(* Program constants *)

ProbScale == 200            \* probabilities are n/200: (bid+ask)/2/100
HourMs == 3600000
MaxTradesPerHour == 20
MinConfidence == 30         \* 0.3, confidence is kept in percent
InitialBalance == 100000    \* $1000 paper balance
MaxCandidates == 10
MaxSpreadCents == 25
MinVolume == 10
MinPrice == 5
MaxPrice == 95
OneDollar == 100
ArbTotal == 98
WideTotal == 115
OneSidedAsk == 95
DefaultProb == 50
MaxRetries == 3

-----------------------------------------------------------------------------
(* Exact rational arithmetic standing in for IEEE doubles *)

Abs(x) == IF x < 0 THEN -x ELSE x

RECURSIVE GCD(_, _)
GCD(a, b) == IF b = 0 THEN a ELSE GCD(b, a % b)

Rat(n, d) ==
    LET s == IF d < 0 THEN -1 ELSE 1
        g == GCD(Abs(n), Abs(d))
    IN  [n |-> (s * n) \div g, d |-> (s * d) \div g]

RInt(i) == [n |-> i, d |-> 1]
RSub(x, y) == Rat(x.n * y.d - y.n * x.d, x.d * y.d)
RMul(x, y) == Rat(x.n * y.n, x.d * y.d)
RDiv(x, y) == Rat(x.n * y.d, x.d * y.n)
RLeq(x, y) == x.n * y.d <= y.n * x.d
RMin(x, y) == IF RLeq(x, y) THEN x ELSE y
RMax(x, y) == IF RLeq(x, y) THEN y ELSE x
RFloor(x) == x.n \div x.d

-----------------------------------------------------------------------------
(* Sequence helpers *)

Range(s) == {s[i] : i \in 1..Len(s)}

RECURSIVE SumSeq(_)
SumSeq(s) == IF s = <<>> THEN 0 ELSE Head(s) + SumSeq(Tail(s))

\* Array.prototype.sort with comparator (a, b) => b.edge - a.edge: stable,
\* descending by edge.  Insert x after every element that is >= it.
RECURSIVE InsertByEdge(_, _)
InsertByEdge(sorted, x) ==
    IF sorted = <<>> THEN <<x>>
    ELSE IF Head(sorted).edge >= x.edge
         THEN <<Head(sorted)>> \o InsertByEdge(Tail(sorted), x)
         ELSE <<x>> \o sorted

RECURSIVE SortByEdgeDesc(_)
SortByEdgeDesc(s) ==
    IF s = <<>> THEN <<>>
    ELSE InsertByEdge(SortByEdgeDesc(SubSeq(s, 1, Len(s) - 1)), s[Len(s)])

-----------------------------------------------------------------------------
(* EdgeDetector *)

NoForecast == [ticker |-> "none"]

\* new Map(forecasts.map(f => [f.ticker, f])).get(ticker): the last forecast
\* of that ticker wins.
RECURSIVE ForecastFor(_, _)
ForecastFor(forecasts, ticker) ==
    IF forecasts = <<>> THEN NoForecast
    ELSE IF forecasts[Len(forecasts)].ticker = ticker
         THEN forecasts[Len(forecasts)]
         ELSE ForecastFor(SubSeq(forecasts, 1, Len(forecasts) - 1), ticker)

\* Mutant: the 50% default for an unquoted side is missing.
FirstQuotedNoDefault(ask, bid) == IF ask # 0 THEN ask ELSE bid

\* (a || b || 50) of JavaScript: the first operand that is not 0.
FirstQuoted(ask, bid) ==
    IF ask # 0 THEN ask ELSE IF bid # 0 THEN bid ELSE DefaultProb

\* Implied probability of a side, in units of 1/ProbScale:
\* ((bid + ask) / 2) / 100 = (bid + ask) / 200 and quote / 100 = 2 * quote / 200.
GetImpliedProb(market, side) ==
    IF side = "yes"
    THEN IF market.yesBid > 0 /\ market.yesAsk > 0
         THEN market.yesBid + market.yesAsk
         ELSE 2 * FirstQuoted(market.yesAsk, market.yesBid)
    ELSE IF market.noBid > 0 /\ market.noAsk > 0
         THEN market.noBid + market.noAsk
         ELSE 2 * FirstQuoted(market.noAsk, market.noBid)

BuildEdge(market, forecast, side, marketProb, modelProb, edge) ==
    [ticker |-> market.ticker,
     market |-> market,
     forecast |-> forecast,
     side |-> side,
     marketProb |-> marketProb,
     modelProb |-> modelProb,
     edge |-> edge,
     expectedValue |-> IF marketProb > 0
                       THEN RSub(Rat(modelProb, marketProb), RInt(1))
                       ELSE RInt(0)]

\* Mutant: the threshold test is not strict.
AtLeastThreshold(edge) == edge >= config.minEdgeThreshold

\* yesEdge > this.minEdge
ExceedsThreshold(edge) == edge > config.minEdgeThreshold

\* The edges one market contributes, YES first.
MarketEdges(market, forecasts) ==
    LET forecast == ForecastFor(forecasts, market.ticker)
        marketProbYes == GetImpliedProb(market, "yes")
        marketProbNo == GetImpliedProb(market, "no")
        yesEdge == forecast.modelProbYes - marketProbYes
        modelProbNo == ProbScale - forecast.modelProbYes
        noEdge == modelProbNo - marketProbNo
    IN  IF forecast = NoForecast THEN <<>>
        ELSE (IF ExceedsThreshold(yesEdge)
              THEN <<BuildEdge(market, forecast, "yes", marketProbYes,
                               forecast.modelProbYes, yesEdge)>>
              ELSE <<>>)
             \o
             (IF ExceedsThreshold(noEdge)
              THEN <<BuildEdge(market, forecast, "no", marketProbNo,
                               modelProbNo, noEdge)>>
              ELSE <<>>)

RECURSIVE CollectEdges(_, _)
CollectEdges(markets, forecasts) ==
    IF markets = <<>> THEN <<>>
    ELSE MarketEdges(Head(markets), forecasts)
         \o CollectEdges(Tail(markets), forecasts)

\* Mutant: the edges are returned in the order found, unsorted.
DetectEdgesUnsorted(markets, forecasts) == CollectEdges(markets, forecasts)

DetectEdges(markets, forecasts) ==
    SortByEdgeDesc(CollectEdges(markets, forecasts))

\* if (m.yesAsk === 0 || m.noAsk === 0) continue
Unquoted(m) == m.yesAsk = 0 \/ m.noAsk = 0

\* Mutant: a total of exactly 98 counts as an arbitrage.
IsGuaranteedProfitOrPar(total) == total <= ArbTotal

\* if (total < 98)
IsGuaranteedProfit(total) == total < ArbTotal

\* if (total > 115 && m.yesAsk < 95 && m.noAsk < 95)
IsWideSpread(m, total) ==
    total > WideTotal /\ m.yesAsk < OneSidedAsk /\ m.noAsk < OneSidedAsk

\* The object pushed on opps (title is display only and left out).
Opportunity(m, total, type) ==
    [ticker |-> m.ticker, yesAsk |-> m.yesAsk, noAsk |-> m.noAsk,
     total |-> total, type |-> type]

\* One iteration of the loop over markets: what it pushes, in order.
MarketOpps(m) ==
    LET total == m.yesAsk + m.noAsk
    IN  IF Unquoted(m) THEN <<>>
        ELSE (IF IsGuaranteedProfit(total)
              THEN <<Opportunity(m, total, "guaranteed_profit")>> ELSE <<>>)
             \o (IF IsWideSpread(m, total)
                 THEN <<Opportunity(m, total, "wide_spread")>> ELSE <<>>)

RECURSIVE CollectOpps(_)
CollectOpps(markets) ==
    IF markets = <<>> THEN <<>>
    ELSE MarketOpps(Head(markets)) \o CollectOpps(Tail(markets))

\* Mutant: both types are ordered by ascending total.
ArbCompareAscending(a, b) ==
    IF a.type # b.type
    THEN (IF a.type = "guaranteed_profit" THEN -1 ELSE 1)
    ELSE a.total - b.total

\* The comparator given to opps.sort.
ArbCompare(a, b) ==
    IF a.type # b.type
    THEN (IF a.type = "guaranteed_profit" THEN -1 ELSE 1)
    ELSE IF a.type = "guaranteed_profit" THEN a.total - b.total
         ELSE b.total - a.total

\* Array.prototype.sort is stable: x goes after every element that does not
\* compare greater than it.
RECURSIVE InsertOpp(_, _)
InsertOpp(sorted, x) ==
    IF sorted = <<>> THEN <<x>>
    ELSE IF ArbCompare(Head(sorted), x) <= 0
         THEN <<Head(sorted)>> \o InsertOpp(Tail(sorted), x)
         ELSE <<x>> \o sorted

RECURSIVE SortOpps(_)
SortOpps(s) ==
    IF s = <<>> THEN <<>>
    ELSE InsertOpp(SortOpps(SubSeq(s, 1, Len(s) - 1)), s[Len(s)])

\* EdgeDetector.findArbitrageOpportunities
FindArbitrageOpportunities(markets) == SortOpps(CollectOpps(markets))

-----------------------------------------------------------------------------
(* RiskManager *)

NoSignal == [action |-> "none"]

\* this.dailyLossLimit = maxPortfolioExposureUsd * 0.1 (constructor)
DailyLossLimit == config.maxPortfolioExposureUsd \div 10

\* b = (payout - cost) / cost, cost = edge.marketProb
NetOdds(cost) == RDiv(RSub(RInt(1), cost), cost)

\* Mutant: the stake is counted as lost either way, (p * b - 1) / b.
FullKellyStakeLost(p, b) == RDiv(RSub(RMul(p, b), RInt(1)), b)

\* fullKelly = (p * b - q) / b
FullKelly(p, b) == RDiv(RSub(RMul(p, b), RSub(RInt(1), p)), b)

\* if (b <= 0) return null
OddsRefused(b) == RLeq(b, RInt(0))

\* Mutant: a Kelly fraction of exactly 0 is let through.
KellyRefusedStrict(fullKelly) == fullKelly.n < 0

\* if (fullKelly <= 0) return null
KellyRefused(fullKelly) == RLeq(fullKelly, RInt(0))

\* Mutant: the $1 floor is applied before the two caps.
ClampSizeFloorFirst(size, remainingExposure) ==
    RMin(RMin(RMax(size, RInt(OneDollar)), RInt(config.maxPositionUsd)),
         RInt(remainingExposure))

\* Math.min(size, maxPositionUsd); Math.min(., remainingExposure);
\* Math.max(., 1)
ClampSize(size, remainingExposure) ==
    RMax(RMin(RMin(size, RInt(config.maxPositionUsd)), RInt(remainingExposure)),
         RInt(OneDollar))

\* Mutant: the contract count is rounded up.
ContractCountRoundUp(size, pricePerContract) ==
    -((-size.n) \div (size.d * pricePerContract))

\* Math.floor((positionSizeUsd * 100) / pricePerContract), size in cents
ContractCount(size, pricePerContract) ==
    RFloor(RDiv(size, RInt(pricePerContract)))

\* actualPositionUsd = (contracts * pricePerContract) / 100, in cents
ActualPosition(contracts, pricePerContract) == contracts * pricePerContract

\* edge.marketProb is > 0 for every edge the detector builds (GetImpliedProb
\* is never 0); a cost of 0 would make b infinite and is not modelled.
SizePosition(edge, bankroll, remainingExposure) ==
    LET p == Rat(edge.modelProb, ProbScale)
        cost == Rat(edge.marketProb, ProbScale)
        b == NetOdds(cost)
        fullKelly == FullKelly(p, b)
        adjustedKelly == RMul(fullKelly, config.kellyFraction)
        positionSizeUsd == ClampSize(RMul(RInt(bankroll), adjustedKelly),
                                     remainingExposure)
        pricePerContract == IF edge.side = "yes" THEN edge.market.yesAsk
                            ELSE edge.market.noAsk
        contracts == ContractCount(positionSizeUsd, pricePerContract)
    IN  IF OddsRefused(b) THEN NoSignal
        ELSE IF KellyRefused(fullKelly) THEN NoSignal
        ELSE IF pricePerContract <= 0 THEN NoSignal
        ELSE IF contracts <= 0 THEN NoSignal
        ELSE [edge |-> edge,
              side |-> edge.side,
              action |-> "buy",
              contracts |-> contracts,
              limitPrice |-> pricePerContract,
              kellyFraction |-> adjustedKelly,
              positionSizeUsd |-> ActualPosition(contracts, pricePerContract)]

\* Mutant: only a YES position counts as held.
HasYesPosition(portfolio, ticker) ==
    \E i \in 1..Len(portfolio.positions) :
        /\ portfolio.positions[i].ticker = ticker
        /\ portfolio.positions[i].side = "yes"

\* portfolio.positions.find(p => p.ticker === edge.ticker)
HasPosition(portfolio, ticker) ==
    \E i \in 1..Len(portfolio.positions) : portfolio.positions[i].ticker = ticker

\* Mutant: the daily-loss gate trips only above the limit.
DailyLossAbove(loss) == loss > DailyLossLimit

\* if (this.dailyLoss >= this.dailyLossLimit) return []
DailyLossHit(loss) == loss >= DailyLossLimit

\* Mutant: the hourly gate trips one trade late.
HourlyLimitLate(count) == count > MaxTradesPerHour

\* if (this.tradesThisHour >= this.maxTradesPerHour) break
HourlyLimitHit(count) == count >= MaxTradesPerHour

\* if (remainingExposure <= 0) break
ExposureExhausted(remainingExposure) == remainingExposure <= 0

\* Mutant: a confidence of exactly 0.30 is skipped too.
LowConfidenceInclusive(edge) == edge.forecast.confidence <= MinConfidence

\* if (edge.forecast.confidence < 0.3) continue
LowConfidence(edge) == edge.forecast.confidence < MinConfidence

\* Mutant: a skipped edge ends the loop, as a tripped budget gate does.
RECURSIVE SignalLoopStopsAtSkip(_, _, _, _, _)
SignalLoopStopsAtSkip(edges, portfolio, signals, remainingExposure, count) ==
    IF edges = <<>> THEN [signals |-> signals, tradesThisHour |-> count]
    ELSE IF HourlyLimitHit(count)
         THEN [signals |-> signals, tradesThisHour |-> count]
    ELSE IF ExposureExhausted(remainingExposure)
         THEN [signals |-> signals, tradesThisHour |-> count]
    ELSE IF LowConfidence(Head(edges))
         THEN [signals |-> signals, tradesThisHour |-> count]
    ELSE IF HasPosition(portfolio, Head(edges).ticker)
         THEN [signals |-> signals, tradesThisHour |-> count]
    ELSE LET signal == SizePosition(Head(edges), portfolio.balanceUsd,
                                    remainingExposure)
         IN  IF signal # NoSignal
             THEN SignalLoopStopsAtSkip(Tail(edges), portfolio,
                                        Append(signals, signal),
                                        remainingExposure - signal.positionSizeUsd,
                                        count + 1)
             ELSE [signals |-> signals, tradesThisHour |-> count]

\* The for loop of generateSignals over the edges still to visit.
RECURSIVE SignalLoop(_, _, _, _, _)
SignalLoop(edges, portfolio, signals, remainingExposure, count) ==
    IF edges = <<>> THEN [signals |-> signals, tradesThisHour |-> count]
    ELSE IF HourlyLimitHit(count)
         THEN [signals |-> signals, tradesThisHour |-> count]
    ELSE IF ExposureExhausted(remainingExposure)
         THEN [signals |-> signals, tradesThisHour |-> count]
    ELSE IF LowConfidence(Head(edges))
         THEN SignalLoop(Tail(edges), portfolio, signals, remainingExposure, count)
    ELSE IF HasPosition(portfolio, Head(edges).ticker)
         THEN SignalLoop(Tail(edges), portfolio, signals, remainingExposure, count)
    ELSE LET signal == SizePosition(Head(edges), portfolio.balanceUsd,
                                    remainingExposure)
         IN  IF signal # NoSignal
             THEN SignalLoop(Tail(edges), portfolio, Append(signals, signal),
                             remainingExposure - signal.positionSizeUsd,
                             count + 1)
             ELSE SignalLoop(Tail(edges), portfolio, signals,
                             remainingExposure, count)

\* Mutant: the window is reset at 3600 s sharp.
WindowElapsedAtHour(t, windowStart) == t - windowStart >= HourMs

\* resetHourlyCounterIfNeeded: Date.now() - this.lastHourReset > 3600_000
WindowElapsed(t, windowStart) == t - windowStart > HourMs

\* generateSignals after the hourly reset: the signals and the new counter.
GenerateSignals(edges, portfolio, loss, count) ==
    IF DailyLossHit(loss)
    THEN [signals |-> <<>>, tradesThisHour |-> count]
    ELSE SignalLoop(edges, portfolio, <<>>,
                    config.maxPortfolioExposureUsd - portfolio.totalExposureUsd,
                    count)

-----------------------------------------------------------------------------
(* PaperTrader.  A ledger is [balance, positions, trades]; positions is the *)
(* Map's values in insertion order; avgPrice is a rational number of cents. *)
(* currentPrice and marketTitle of a Position are display only and left out. *)

RECURSIVE PositionIndex(_, _)
PositionIndex(ps, ticker) ==
    IF ps = <<>> THEN 0
    ELSE IF ps[Len(ps)].ticker = ticker THEN Len(ps)
    ELSE PositionIndex(SubSeq(ps, 1, Len(ps) - 1), ticker)

\* cost = (signal.contracts * signal.limitPrice) / 100, in cents
SignalCost(signal) == signal.contracts * signal.limitPrice

\* Mutant: the cost is compared with the opening balance.
CostAboveOpeningBalance(cost, bal) == cost > InitialBalance

\* Mutant: an order costing exactly the balance is rejected too.
BalanceNotAbove(cost, bal) == cost >= bal

\* if (cost > this.balance) -> unfilled record
InsufficientBalance(cost, bal) == cost > bal

\* existing && existing.side === signal.side
AveragesIn(ps, signal) ==
    LET i == PositionIndex(ps, signal.edge.ticker)
    IN  i # 0 /\ ps[i].side = signal.side

\* Mutant: the two prices are averaged without their contract counts.
AveragedUnweighted(existing, signal) ==
    [existing EXCEPT
       !.avgPrice = RDiv(Rat(existing.avgPrice.n
                               + signal.limitPrice * existing.avgPrice.d,
                             existing.avgPrice.d),
                         RInt(2)),
       !.contracts = existing.contracts + signal.contracts]

AveragedPosition(existing, signal) ==
    LET totalContracts == existing.contracts + signal.contracts
    IN  [existing EXCEPT
           !.avgPrice = RDiv(Rat(existing.avgPrice.n * existing.contracts
                                   + signal.limitPrice * signal.contracts
                                     * existing.avgPrice.d,
                                 existing.avgPrice.d),
                             RInt(totalContracts)),
           !.contracts = totalContracts]

FreshPosition(signal) ==
    [ticker |-> signal.edge.ticker,
     side |-> signal.side,
     contracts |-> signal.contracts,
     avgPrice |-> RInt(signal.limitPrice)]

\* Mutant: the new position is stored next to the one already held.
MapSetAppends(ps, pos) == Append(ps, pos)

\* Map.set: replaces the value of an existing key in place, else appends.
MapSet(ps, pos) ==
    LET i == PositionIndex(ps, pos.ticker)
    IN  IF i = 0 THEN Append(ps, pos) ELSE [ps EXCEPT ![i] = pos]

TradeRecord(signal, filled) ==
    [ticker |-> signal.edge.ticker,
     side |-> signal.side,
     contracts |-> signal.contracts,
     limitPrice |-> signal.limitPrice,
     filled |-> filled]

\* PaperTrader.execute: the ledger after the call and the record returned.
Execute(ledger, signal) ==
    LET cost == SignalCost(signal)
        i == PositionIndex(ledger.positions, signal.edge.ticker)
    IN  IF InsufficientBalance(cost, ledger.balance)
        THEN [ledger |-> ledger, record |-> TradeRecord(signal, FALSE)]
        ELSE [ledger |->
                [balance |-> ledger.balance - cost,
                 positions |->
                    IF AveragesIn(ledger.positions, signal)
                    THEN [ledger.positions EXCEPT
                            ![i] = AveragedPosition(ledger.positions[i], signal)]
                    ELSE MapSet(ledger.positions, FreshPosition(signal)),
                 trades |-> Append(ledger.trades, TradeRecord(signal, TRUE))],
              record |-> TradeRecord(signal, TRUE)]

\* (p.contracts * p.avgPrice) / 100, in cents; always a whole number of cents
PositionCost(pos) == RFloor(RMul(RInt(pos.contracts), pos.avgPrice))

RECURSIVE TotalExposure(_)
TotalExposure(ps) ==
    IF ps = <<>> THEN 0 ELSE PositionCost(Head(ps)) + TotalExposure(Tail(ps))

\* PaperTrader.getPortfolio
GetPortfolio(ledger) ==
    [balanceUsd |-> ledger.balance,
     positions |-> ledger.positions,
     totalExposureUsd |-> TotalExposure(ledger.positions),
     realizedPnl |-> ledger.balance - InitialBalance
                     + TotalExposure(ledger.positions),
     unrealizedPnl |-> 0]

\* this.positions.delete(ticker)
MapDelete(ps, ticker) == SelectSeq(ps, LAMBDA pos : pos.ticker # ticker)

\* Mutant: the winning and the losing branch are swapped.
SettlePnlSwapped(position, result) ==
    IF position.side # result
    THEN position.contracts * 100 - PositionCost(position)
    ELSE -PositionCost(position)

\* pnl of settle, in cents: revenue ($1 per contract) minus cost when the
\* position's side is the result, minus the cost otherwise
SettlePnl(position, result) ==
    IF position.side = result
    THEN position.contracts * 100 - PositionCost(position)
    ELSE -PositionCost(position)

\* Mutant: cash is credited with the profit instead of the payout.
SettleCreditProfit(position, result) ==
    IF position.side = result
    THEN position.contracts * 100 - PositionCost(position)
    ELSE 0

\* this.balance += (position.contracts * (side === result ? 100 : 0)) / 100
SettleCredit(position, result) ==
    IF position.side = result THEN position.contracts * 100 ELSE 0

\* PaperTrader.settle: the ledger after the call and the P&L returned.
Settle(ledger, ticker, result) ==
    LET i == PositionIndex(ledger.positions, ticker)
    IN  IF i = 0 THEN [ledger |-> ledger, pnl |-> 0]
        ELSE [ledger |->
                [ledger EXCEPT
                   !.balance = @ + SettleCredit(ledger.positions[i], result),
                   !.positions = MapDelete(@, ticker)],
              pnl |-> SettlePnl(ledger.positions[i], result)]

-----------------------------------------------------------------------------
(* TradingAgent: candidate filters (trading-agent.ts, market-filter.ts) *)

\* cat.includes(c.toLowerCase()), cat = m.category.toLowerCase(): containment
\* of strings without regard to case.  Strings are atoms here, so lower-casing
\* and containment are tabulated for the names the model uses.
CategoryIncludes(cat, c) ==
    LET Lower(x) == IF x = "Politics" THEN "politics"
                    ELSE IF x = "US Politics" THEN "us politics" ELSE x
    IN  \/ Lower(c) = ""
        \/ Lower(cat) = Lower(c)
        \/ <<Lower(cat), Lower(c)>> \in {<<"us politics", "politics">>}

\* Twice the filter's price: the YES midpoint when both YES quotes are
\* present, else the one that is.
FilterPrice2(m) ==
    IF m.yesBid > 0 /\ m.yesAsk > 0
    THEN m.yesAsk + m.yesBid
    ELSE 2 * (IF m.yesAsk # 0 THEN m.yesAsk ELSE m.yesBid)

\* Mutant: prices of exactly 5 and 95 cents are out of range too.
PriceOnOrOutOfRange(price2) == price2 <= 2 * MinPrice \/ price2 >= 2 * MaxPrice

\* if (price < 5 || price > 95) return false
PriceOutOfRange(price2) == price2 < 2 * MinPrice \/ price2 > 2 * MaxPrice

KeepMarket(m) ==
    /\ m.status = "open"
    /\ ~(m.yesAsk = 0 /\ m.yesBid = 0)
    /\ ~PriceOutOfRange(FilterPrice2(m))
    /\ ~(m.volume < MinVolume)
    /\ (config.marketCategories # <<>>
          => \E i \in 1..Len(config.marketCategories) :
                CategoryIncludes(m.category, config.marketCategories[i]))

FilterMarkets(markets) == SelectSeq(markets, KeepMarket)

\* REALTIME_DEPENDENT_PATTERNS tested on the ticker; a model market carries
\* the outcome of the test in its realtime field.
IsLLMForecastable(m) == ~m.realtime

HasTightSpread(m) ==
    IF m.yesAsk <= 0 \/ m.noAsk <= 0 THEN TRUE
    ELSE m.yesAsk + m.noAsk <= 100 + MaxSpreadCents

Forecastable(m) == IsLLMForecastable(m) /\ HasTightSpread(m)

\* market.category || market.eventTicker.split("-")[0] || "other"
GetMarketGroup(m) ==
    IF m.category # "" THEN m.category
    ELSE IF m.eventPrefix # "" THEN m.eventPrefix
    ELSE "other"

\* Mutant: the markets are grouped in the order given.
SortByVolumeAsGiven(s) == s

\* [...markets].sort((a, b) => b.volume - a.volume): stable, descending
RECURSIVE InsertByVolume(_, _)
InsertByVolume(sorted, x) ==
    IF sorted = <<>> THEN <<x>>
    ELSE IF Head(sorted).volume >= x.volume
         THEN <<Head(sorted)>> \o InsertByVolume(Tail(sorted), x)
         ELSE <<x>> \o sorted

RECURSIVE SortByVolumeDesc(_)
SortByVolumeDesc(s) ==
    IF s = <<>> THEN <<>>
    ELSE InsertByVolume(SortByVolumeDesc(SubSeq(s, 1, Len(s) - 1)), s[Len(s)])

\* Keys of the groups Map, in order of first appearance.
RECURSIVE GroupKeys(_)
GroupKeys(sorted) ==
    IF sorted = <<>> THEN <<>>
    ELSE LET before == GroupKeys(SubSeq(sorted, 1, Len(sorted) - 1))
             key == GetMarketGroup(sorted[Len(sorted)])
         IN  IF key \in Range(before) THEN before ELSE Append(before, key)

GroupItems(sorted, key) ==
    SelectSeq(sorted, LAMBDA m : GetMarketGroup(m) = key)

RemoveAt(s, i) == SubSeq(s, 1, i - 1) \o SubSeq(s, i + 1, Len(s))

\* One pass of the inner for loop, i from keys.length - 1 down to 0
\* (here from Len(keys) down to 1).
RECURSIVE RoundRobinPass(_, _, _, _)
RoundRobinPass(sorted, count, st, i) ==
    IF i < 1 THEN st
    ELSE IF Len(st.result) >= count THEN st
    ELSE LET key == st.keys[i]
             items == GroupItems(sorted, key)
             ptr == st.pointers[key]
         IN  IF ptr < Len(items)
             THEN RoundRobinPass(sorted, count,
                    [st EXCEPT !.result = Append(@, items[ptr + 1]),
                               !.pointers[key] = ptr + 1], i - 1)
             ELSE RoundRobinPass(sorted, count,
                    [st EXCEPT !.keys = RemoveAt(@, i)], i - 1)

RECURSIVE RoundRobin(_, _, _)
RoundRobin(sorted, count, st) ==
    IF Len(st.result) < count /\ st.keys # <<>>
    THEN RoundRobin(sorted, count, RoundRobinPass(sorted, count, st, Len(st.keys)))
    ELSE st.result

SelectDiverseCandidates(markets, count) ==
    LET sorted == SortByVolumeDesc(markets)
        keys == GroupKeys(sorted)
    IN  RoundRobin(sorted, count,
                   [result |-> <<>>, keys |-> keys,
                    pointers |-> [k \in Range(keys) |-> 0]])

-----------------------------------------------------------------------------
(* Inputs drawn by the environment *)

Market(ticker, yesBid, yesAsk, noBid, noAsk, volume) ==
    [ticker |-> ticker, eventPrefix |-> ticker, category |-> "politics",
     status |-> "open", realtime |-> FALSE,
     yesBid |-> yesBid, yesAsk |-> yesAsk, noBid |-> noBid, noAsk |-> noAsk,
     volume |-> volume]

MktA == Market("A", 38, 42, 38, 42, 100)   \* both sides quoted at a 40 mid
MktB == Market("B", 28, 32, 38, 42, 50)
MktC == Market("C", 30, 0, 66, 70, 40)     \* no YES ask
MktD == Market("D", 48, 52, 48, 52, 30)
MktE == Market("E", 100, 100, 0, 0, 20)    \* YES quoted at 100: cost 1
MktX == Market("X", 96, 98, 2, 4, 500)     \* priced outside 5..95
MktY == Market("Y", 96, 96, 0, 1, 500)     \* outside 5..95, asks sum to 97

\* What getAllOpenMarkets returns: a feed with two candidates, and one whose
\* only contract the candidate filter drops.
Feeds == {<<MktA, MktB, MktX>>, <<MktY>>}

Forecast(ticker, modelProbYes, confidence) ==
    [ticker |-> ticker, modelProbYes |-> modelProbYes, confidence |-> confidence]

\* What the forecaster may answer for a contract: (probability, confidence)
ForecastOpts == {<<100, 90>>, <<90, 30>>}

\* The forecast of a contract failed: forecastBatch drops the contract.
ForecastFailed == <<>>

RECURSIVE BuildForecasts(_, _)
BuildForecasts(markets, answer) ==
    IF markets = <<>> THEN <<>>
    ELSE LET t == Head(markets).ticker
         IN  (IF answer[t] = ForecastFailed THEN <<>>
              ELSE <<Forecast(t, answer[t][1], answer[t][2])>>)
             \o BuildForecasts(Tail(markets), answer)

Tickers(markets) == {markets[i].ticker : i \in 1..Len(markets)}

DefaultConfig ==
    [minEdgeThreshold |-> 10, kellyFraction |-> [n |-> 1, d |-> 4],
     maxPositionUsd |-> 5000, maxPortfolioExposureUsd |-> 50000,
     marketCategories |-> <<"politics", "economics", "crypto">>]

\* MAX_POSITION_USD=1.5 MAX_PORTFOLIO_EXPOSURE_USD=2
TightConfig ==
    [DefaultConfig EXCEPT !.maxPositionUsd = 150,
                          !.maxPortfolioExposureUsd = 200]

\* MAX_POSITION_USD=0.5 MAX_PORTFOLIO_EXPOSURE_USD=3
TinyConfig ==
    [DefaultConfig EXCEPT !.maxPositionUsd = 50,
                          !.maxPortfolioExposureUsd = 300]

AgentConfigs == {DefaultConfig, TightConfig}

LiveBalances == {InitialBalance}

-----------------------------------------------------------------------------
(* State *)

NoCall == [op |-> "none"]

Ledger == [balance |-> balance, positions |-> positions, trades |-> trades]

\* No forecastBatch call under way.
IdleBatch ==
    [phase |-> "idle", markets |-> <<>>, delay |-> 0, i |-> 0, attempt |-> 0,
     log |-> <<>>, forecasts |-> <<>>]

InitCommon ==
    /\ running = FALSE
    /\ pc = "idle"
    /\ pending = 0
    /\ batch = IdleBatch
    /\ now = 0
    /\ dailyLoss = 0
    /\ tradesThisHour = 0
    /\ lastHourReset = 0
    /\ balance = InitialBalance
    /\ positions = <<>>
    /\ trades = <<>>
    /\ ordered = {}
    /\ cycles = 0
    /\ ticks = 0
    /\ sigTimes = <<>>
    /\ audit = [pnl |-> 0, fills |-> <<>>, calls |-> 0]
    /\ call = NoCall

\* Mutant: the reset moves the window start and keeps the counter.
ResetHourlyKeepsCount(t) ==
    IF WindowElapsed(t, lastHourReset)
    THEN [tradesThisHour |-> tradesThisHour, lastHourReset |-> t]
    ELSE [tradesThisHour |-> tradesThisHour, lastHourReset |-> lastHourReset]

\* resetHourlyCounterIfNeeded at time t
ResetHourly(t) ==
    IF WindowElapsed(t, lastHourReset)
    THEN [tradesThisHour |-> 0, lastHourReset |-> t]
    ELSE [tradesThisHour |-> tradesThisHour, lastHourReset |-> lastHourReset]

\* History of the signals produced, one entry per hourly window that
\* produced any: the window's start, the times of its first and last signal
\* and the number of its signals.  The entry of an earlier window is dropped
\* once its first signal is an hour old.
RecordSignals(hist, t, n, windowStart) ==
    LET kept == SelectSeq(hist, LAMBDA e : e.window = windowStart
                                           \/ t - e.first < HourMs)
    IN  IF n = 0 THEN kept
        ELSE IF kept # <<>> /\ kept[Len(kept)].window = windowStart
             THEN [kept EXCEPT ![Len(kept)] =
                      [@ EXCEPT !.last = t, !.n = @ + n]]
             ELSE Append(kept, [window |-> windowStart, first |-> t,
                                last |-> t, n |-> n])

\* One generateSignals call at the current time: the observation of it.
GsCall(edges, portfolio) ==
    LET window == ResetHourly(now)
        out == GenerateSignals(edges, portfolio, dailyLoss, window.tradesThisHour)
    IN  [op |-> "gs", edges |-> edges, portfolio |-> portfolio,
         signals |-> out.signals, at |-> now, lossBefore |-> dailyLoss,
         tradesBefore |-> tradesThisHour, windowBefore |-> lastHourReset,
         tradesAfter |-> out.tradesThisHour,
         windowAfter |-> window.lastHourReset]

ApplyGs(gs) ==
    /\ tradesThisHour' = gs.tradesAfter
    /\ lastHourReset' = gs.windowAfter
    /\ sigTimes' = RecordSignals(sigTimes, now, Len(gs.signals), gs.windowAfter)

-----------------------------------------------------------------------------
(* Clock.  Only the time elapsed since the window start matters to the   *)
(* program (resetHourlyCounterIfNeeded), so the clock advances to the last *)
(* instant at which the window is still open or to the first at which it   *)
(* has elapsed.                                                            *)

NextInstants == {lastHourReset + HourMs, lastHourReset + HourMs + 1}

Tick ==
    /\ ticks < (IF mode = "api" THEN MaxTicks ELSE MaxAgentTicks)
    /\ \E t \in NextInstants : t > now /\ now' = t
    /\ ticks' = ticks + 1
    /\ call' = NoCall
    /\ UNCHANGED <<config, mode, running, pc, pending, batch, dailyLoss,
                   tradesThisHour, lastHourReset, balance, positions, trades,
                   ordered, cycles, sigTimes, audit>>

-----------------------------------------------------------------------------
(* TradingAgent.runCycle, one whole cycle *)

LivePortfolio(bal) ==
    [balanceUsd |-> bal, positions |-> <<>>, totalExposureUsd |-> 0,
     realizedPnl |-> 0, unrealizedPnl |-> 0]

\* What one executeSignal call did: held says whether the back end already
\* held the contract (paper: an open position; live: an order placed).
ExecRecord(signal, filled, held) ==
    [ticker |-> signal.edge.ticker, side |-> signal.side,
     contracts |-> signal.contracts, limitPrice |-> signal.limitPrice,
     filled |-> filled, held |-> held]

\* for (const signal of signals) await this.executeSignal(signal), paper mode
RECURSIVE DispatchPaper(_, _, _)
DispatchPaper(ledger, signals, execs) ==
    IF signals = <<>> THEN [ledger |-> ledger, execs |-> execs]
    ELSE LET r == Execute(ledger, Head(signals))
             held == PositionIndex(ledger.positions, Head(signals).edge.ticker) # 0
         IN  DispatchPaper(r.ledger, Tail(signals),
                           Append(execs, ExecRecord(Head(signals),
                                                    r.record.filled, held)))

\* Mutant: the first order that fails ends the dispatch loop.
DispatchLiveStopsAtFailure(placed, signals, execs, failed, i) ==
    LET stop == IF failed = {} THEN Len(signals)
                ELSE CHOOSE k \in failed : TRUE
    IN  [ordered |-> placed \cup {signals[k].edge.ticker :
                                    k \in (1..stop) \ failed},
         execs |-> [k \in 1..stop |->
                      ExecRecord(signals[k], k \notin failed, FALSE)]]

\* live mode: placeOrder throws for the signals whose index is in failed;
\* the error is caught and logged per signal.
RECURSIVE DispatchLive(_, _, _, _, _)
DispatchLive(placed, signals, execs, failed, i) ==
    IF i > Len(signals) THEN [ordered |-> placed, execs |-> execs]
    ELSE LET t == signals[i].edge.ticker
         IN  DispatchLive(IF i \in failed THEN placed ELSE placed \cup {t},
                          signals,
                          Append(execs, ExecRecord(signals[i], i \notin failed,
                                                   t \in placed)),
                          failed, i + 1)

\* The order placements that fail in one cycle: none or one of them.
FailureSets(n) == {{}} \cup (IF mode = "live" THEN {{i} : i \in 1..n} ELSE {})

\* Step 3 of runCycle: the arbitrage scan over the fetched markets.
ArbScan(markets) ==
    [op |-> "arb", markets |-> markets,
     opps |-> FindArbitrageOpportunities(markets)]

\* What one runCycle did: arb is the arbitrage scan it ran, NoCall if none.
CycleObs(outcome, markets, arb, candidates, forecasts, edges, gs, execs) ==
    [op |-> "cycle", outcome |-> outcome, markets |-> markets, arb |-> arb,
     candidates |-> candidates, forecasts |-> forecasts, edges |-> edges,
     gs |-> gs, execs |-> execs]

\* A cycle that ends before generateSignals is called.
EndEarly(obs) ==
    /\ call' = obs
    /\ cycles' = cycles + 1
    /\ UNCHANGED <<config, mode, running, pc, pending, batch, now, dailyLoss,
                   tradesThisHour, lastHourReset, balance, positions, trades,
                   ordered, ticks, sigTimes, audit>>

\* Steps 6 and 7 of runCycle.
SizeAndDispatch(markets, candidates, forecasts, edges) ==
    \E bal \in (IF mode = "paper" THEN {balance} ELSE LiveBalances) :
      LET portfolio == IF mode = "paper" THEN GetPortfolio(Ledger)
                       ELSE LivePortfolio(bal)
          gs == GsCall(edges, portfolio)
      IN  \E failed \in FailureSets(Len(gs.signals)) :
            LET paper == DispatchPaper(Ledger, gs.signals, <<>>)
                live == DispatchLive(ordered, gs.signals, <<>>, failed, 1)
                execs == IF mode = "paper" THEN paper.execs ELSE live.execs
            IN  /\ ApplyGs(gs)
                /\ balance' = IF mode = "paper" THEN paper.ledger.balance
                              ELSE balance
                /\ positions' = IF mode = "paper" THEN paper.ledger.positions
                                ELSE positions
                /\ trades' = IF mode = "paper" THEN paper.ledger.trades
                             ELSE trades
                /\ ordered' = IF mode = "paper" THEN ordered ELSE live.ordered
                /\ call' = CycleObs("done", markets, ArbScan(markets),
                                    candidates, forecasts, edges, gs, execs)
                /\ cycles' = cycles + 1
                /\ UNCHANGED <<config, mode, running, pc, pending, batch,
                               now, dailyLoss, ticks, audit>>

\* getAllOpenMarkets or getBalance throws: caught and logged by runCycle.
CycleFails ==
    /\ cycles < MaxCycles
    /\ EndEarly(CycleObs("failed", <<>>, NoCall, <<>>, <<>>, <<>>, NoCall,
                        <<>>))

RunCycle ==
    /\ cycles < MaxCycles
    /\ \E markets \in Feeds :
         LET filtered == FilterMarkets(markets)
             candidates == SelectDiverseCandidates(
                               SelectSeq(filtered, Forecastable), MaxCandidates)
         IN  IF filtered = <<>>
             THEN EndEarly(CycleObs("no_candidates", markets, NoCall, <<>>,
                                    <<>>, <<>>, NoCall, <<>>))
             ELSE \E answer \in [Tickers(candidates) -> ForecastOpts \cup {ForecastFailed}] :
                    LET forecasts == BuildForecasts(candidates, answer)
                        edges == DetectEdges(candidates, forecasts)
                    IN  IF edges = <<>>
                        THEN EndEarly(CycleObs("no_edges", markets,
                                               ArbScan(markets), candidates,
                                               forecasts, <<>>, NoCall, <<>>))
                        ELSE SizeAndDispatch(markets, candidates, forecasts, edges)

InitAgent ==
    /\ InitCommon
    /\ config \in AgentConfigs
    /\ mode \in {"paper", "live"}

Next == RunCycle \/ CycleFails \/ Tick

Spec == InitAgent /\ [][Next]_vars

-----------------------------------------------------------------------------
(* A RiskManager driven directly through its public methods *)

RiskConfigs == {DefaultConfig, TinyConfig}

EdgeOf(market, side, modelProbYes, confidence) ==
    LET marketProb == GetImpliedProb(market, side)
        modelProb == IF side = "yes" THEN modelProbYes
                     ELSE ProbScale - modelProbYes
    IN  BuildEdge(market, Forecast(market.ticker, modelProbYes, confidence),
                  side, marketProb, modelProb, modelProb - marketProb)

\* Four edges that can be sized, in the detector's order.
BusyEdges ==
    <<EdgeOf(MktB, "yes", 100, 30), EdgeOf(MktA, "yes", 100, 90),
      EdgeOf(MktA, "no", 100, 90), EdgeOf(MktB, "no", 100, 30)>>

\* Low confidence, p = cost, cost = 1, no ask, p < cost, then a good edge.
MixedEdges ==
    <<EdgeOf(MktA, "yes", 100, 20), EdgeOf(MktD, "yes", 100, 90),
      EdgeOf(MktE, "yes", 199, 90), EdgeOf(MktC, "yes", 100, 90),
      EdgeOf(MktD, "yes", 90, 90), EdgeOf(MktA, "no", 100, 90)>>

EdgeLists == {BusyEdges, MixedEdges}

Position(ticker, side, contracts, avgPrice) ==
    [ticker |-> ticker, side |-> side, contracts |-> contracts,
     avgPrice |-> RInt(avgPrice)]

Snapshot(bal, ps) ==
    [balanceUsd |-> bal, positions |-> ps,
     totalExposureUsd |-> TotalExposure(ps),
     realizedPnl |-> bal - InitialBalance + TotalExposure(ps),
     unrealizedPnl |-> 0]

\* Portfolio snapshots: empty; a small bankroll holding A; holding B with 50
\* cents of headroom left.
Portfolios ==
    {Snapshot(InitialBalance, <<>>),
     Snapshot(2000, <<Position("A", "yes", 10, 40)>>),
     Snapshot(InitialBalance,
              <<Position("B", "no", (config.maxPortfolioExposureUsd - 50) \div 50, 50)>>)}

\* recordLoss(amount) takes any number: the method has no sign check, so a
\* caller can hand it a gain (a settled P&L) as well as a loss.
LossAmounts == {DailyLossLimit \div 2, DailyLossLimit, -DailyLossLimit}

UnchangedAgent ==
    UNCHANGED <<config, mode, running, pc, pending, batch, balance,
                positions, trades, ordered, cycles, audit>>

GenerateSignalsCall ==
    \E edges \in EdgeLists, portfolio \in Portfolios :
      LET gs == GsCall(edges, portfolio)
      IN  /\ ApplyGs(gs)
          /\ call' = gs
          /\ UNCHANGED <<now, dailyLoss, ticks>>
          /\ UnchangedAgent

RecordLoss ==
    \E amount \in LossAmounts :
      /\ dailyLoss + amount >= 0
      /\ dailyLoss + amount <= MaxLossCalls * DailyLossLimit
      /\ dailyLoss' = dailyLoss + amount
      /\ call' = [op |-> "recordLoss", amount |-> amount]
      /\ UNCHANGED <<now, tradesThisHour, lastHourReset, ticks, sigTimes>>
      /\ UnchangedAgent

ResetDaily ==
    /\ dailyLoss' = 0
    /\ call' = [op |-> "resetDaily"]
    /\ UNCHANGED <<now, tradesThisHour, lastHourReset, ticks, sigTimes>>
    /\ UnchangedAgent

InitRisk ==
    /\ InitCommon
    /\ config \in RiskConfigs
    /\ mode = "api"

NextRisk == GenerateSignalsCall \/ RecordLoss \/ ResetDaily \/ Tick

SpecRisk == InitRisk /\ [][NextRisk]_vars


-----------------------------------------------------------------------------
(* A PaperTrader driven directly through execute and settle: index.ts      *)
(* exports the class, and settle has no caller inside the agent.           *)

\* A TradeSignal as execute reads it: ticker, side, contracts, limitPrice.
Order(ticker, side, contracts, limitPrice) ==
    [edge |-> [ticker |-> ticker], side |-> side, action |-> "buy",
     contracts |-> contracts, limitPrice |-> limitPrice,
     positionSizeUsd |-> contracts * limitPrice]

\* Fills that average (40, 60 and 45 cents on A YES), the other side of A,
\* a second contract, an order costing the whole opening balance and one
\* costing a dollar more.
Orders ==
    {Order("A", "yes", 10, 40), Order("A", "yes", 10, 60),
     Order("A", "yes", 5, 45), Order("A", "no", 5, 30),
     Order("B", "yes", 20, 50), Order("B", "no", 1000, 100),
     Order("B", "no", 1001, 100)}

SettleTickers == {"A", "B"}

Outcomes == {"yes", "no"}

\* The history after an execute: a fill on an open same-side position adds
\* to its entry, any other fill starts the contract's entry afresh.
AuditExecute(a, before, signal, filled) ==
    LET t == signal.edge.ticker
        cost == signal.contracts * signal.limitPrice
        sameSide == \E i \in 1..Len(before.positions) :
                        /\ before.positions[i].ticker = t
                        /\ before.positions[i].side = signal.side
        others == SelectSeq(a.fills, LAMBDA e : e.ticker # t)
        mine == SelectSeq(a.fills, LAMBDA e : e.ticker = t)
        entry == IF sameSide /\ mine # <<>>
                 THEN [mine[1] EXCEPT !.contracts = @ + signal.contracts,
                                      !.cost = @ + cost, !.n = @ + 1]
                 ELSE [ticker |-> t, contracts |-> signal.contracts,
                       cost |-> cost, n |-> 1]
    IN  [a EXCEPT !.calls = @ + 1,
                  !.fills = IF filled THEN Append(others, entry) ELSE @]

\* The history after a settle that returned pnl.
AuditSettle(a, ticker, pnl) ==
    [a EXCEPT !.calls = @ + 1,
              !.pnl = @ + pnl,
              !.fills = SelectSeq(@, LAMBDA e : e.ticker # ticker)]

UnchangedLedgerRest ==
    UNCHANGED <<config, mode, running, pc, pending, batch, now, dailyLoss,
                tradesThisHour, lastHourReset, ordered, cycles, ticks,
                sigTimes>>

ExecuteCall ==
    /\ audit.calls < MaxLedgerCalls
    /\ \E signal \in Orders :
         LET r == Execute(Ledger, signal)
         IN  /\ balance' = r.ledger.balance
             /\ positions' = r.ledger.positions
             /\ trades' = r.ledger.trades
             /\ audit' = AuditExecute(audit, Ledger, signal, r.record.filled)
             /\ call' = [op |-> "execute", signal |-> signal,
                         record |-> r.record, before |-> Ledger]
    /\ UnchangedLedgerRest

SettleCall ==
    /\ audit.calls < MaxLedgerCalls
    /\ \E ticker \in SettleTickers, result \in Outcomes :
         LET r == Settle(Ledger, ticker, result)
         IN  /\ balance' = r.ledger.balance
             /\ positions' = r.ledger.positions
             /\ trades' = r.ledger.trades
             /\ audit' = AuditSettle(audit, ticker, r.pnl)
             /\ call' = [op |-> "settle", ticker |-> ticker, result |-> result,
                         pnl |-> r.pnl, before |-> Ledger]
    /\ UnchangedLedgerRest

InitPaper ==
    /\ InitCommon
    /\ config = DefaultConfig
    /\ mode = "ledger"

NextPaper == ExecuteCall \/ SettleCall

SpecPaper == InitPaper /\ [][NextPaper]_vars

-----------------------------------------------------------------------------
(* An EdgeDetector driven directly: the implied probability of a side and  *)
(* the arbitrage scan, over quotes between 0 and 100 cents.                *)

Quotes == {0, 1, 50, 99, 100}

Sides == {"yes", "no"}

\* A market quoted bid/ask on one side and 50/50 on the other.
QuotedMarket(side, bid, ask) ==
    IF side = "yes" THEN Market("Q", bid, ask, 50, 50, 100)
    ELSE Market("Q", 50, 50, bid, ask, 100)

\* A market asking yesAsk and noAsk.
AskMarket(ticker, yesAsk, noAsk) == Market(ticker, 0, yesAsk, 0, noAsk, 100)

\* Totals of 2, 95 and 97 (below 98), 98, 115, 116, 120 and 188 (wide),
\* 125 and 129 with one ask at 95 or above, and an ask of 0 on either side.
ArbCatalog ==
    {AskMarket("G2", 1, 1), AskMarket("G95", 45, 50), AskMarket("G97", 48, 49),
     AskMarket("N98", 49, 49), AskMarket("N115", 58, 57),
     AskMarket("W116", 58, 58), AskMarket("W120", 60, 60),
     AskMarket("W188", 94, 94), AskMarket("N125", 95, 30),
     AskMarket("N129", 99, 30), AskMarket("Z1", 0, 50), AskMarket("Z2", 50, 0)}

ArbFeeds == UNION {[1..n -> ArbCatalog] : n \in 1..MaxArbMarkets}

UnchangedByDetector ==
    UNCHANGED <<config, mode, running, pc, pending, batch, now, dailyLoss,
                tradesThisHour, lastHourReset, balance, positions, trades,
                ordered, cycles, ticks, sigTimes, audit>>

GetImpliedProbCall ==
    /\ \E side \in Sides, bid \in Quotes, ask \in Quotes :
         LET market == QuotedMarket(side, bid, ask)
         IN  call' = [op |-> "implied", market |-> market, side |-> side,
                      prob |-> GetImpliedProb(market, side)]
    /\ UnchangedByDetector

FindArbitrageCall ==
    /\ \E markets \in ArbFeeds :
         call' = [op |-> "arb", markets |-> markets,
                  opps |-> FindArbitrageOpportunities(markets)]
    /\ UnchangedByDetector

InitDetect ==
    /\ InitCommon
    /\ config = DefaultConfig
    /\ mode = "detector"

NextDetect == GetImpliedProbCall \/ FindArbitrageCall

SpecDetect == InitDetect /\ [][NextDetect]_vars

-----------------------------------------------------------------------------
(* TradingAgent.start and stop.  start() is suspended at one await at a    *)
(* time: the fetch, the forecast batch, getBalance and one placeOrder of   *)
(* the dispatch loop (live mode), or the sleep between two cycles.  The    *)
(* synchronous code between two awaits runs in one step; in paper mode     *)
(* that takes sizing and the whole dispatch loop along with the return of  *)
(* the forecast batch.  stop() runs from a signal handler, between steps.  *)

\* Mutant: the dispatch loop stands outside the try block.
CaughtBeforeDispatch(stage) ==
    stage \in {"fetch", "filter", "forecast", "detect", "size"}

\* try { ... } catch (err) { logger.error } of runCycle: the stages inside
\* the try block.
Caught(stage) ==
    stage \in {"fetch", "filter", "forecast", "detect", "size", "dispatch"}

\* Where start() stands after a stage threw: runCycle returned and the sleep
\* began, or the exception left runCycle and start().
AfterThrow(stage) == IF Caught(stage) THEN "sleep" ELSE "rejected"

\* Mutant: the loop goes on whatever the flag.
AfterSleepAlways(flag) == "fetch"

\* while (this.running), tested when the sleep ends
AfterSleep(flag) == IF flag THEN "fetch" ELSE "returned"

UnchangedByLoop ==
    UNCHANGED <<config, mode, batch, now, dailyLoss, tradesThisHour,
                lastHourReset, balance, positions, trades, ordered, ticks,
                sigTimes, audit>>

\* start(): this.running = true, then the first runCycle up to its fetch.
Start ==
    /\ pc = "idle"
    /\ running' = TRUE
    /\ pc' = "fetch"
    /\ cycles' = cycles + 1
    /\ call' = [op |-> "start"]
    /\ UNCHANGED pending
    /\ UnchangedByLoop

\* stop(), from the SIGINT or SIGTERM handler while start() is suspended.
Stop ==
    /\ pc \in {"fetch", "forecast", "balance", "dispatch", "sleep"}
    /\ running' = FALSE
    /\ call' = [op |-> "stop"]
    /\ UNCHANGED <<pc, pending, cycles>>
    /\ UnchangedByLoop

\* getAllOpenMarkets settles; filterMarkets and the arbitrage scan follow.
\* A stage throws, or ends the cycle with an empty result, or leads on to
\* the next await.
FetchReturns ==
    /\ pc = "fetch"
    /\ \E o \in {<<"fetch", "throws">>, <<"filter", "throws">>,
                 <<"filter", "empty">>, <<"filter", "ok">>} :
         /\ pc' = IF o[2] = "throws" THEN AfterThrow(o[1])
                  ELSE IF o[2] = "empty" THEN "sleep" ELSE "forecast"
         /\ call' = [op |-> "stage", stage |-> o[1], result |-> o[2]]
    /\ UNCHANGED <<running, pending, cycles>>
    /\ UnchangedByLoop

\* forecastBatch settles; detectEdges follows, and in paper mode
\* generateSignals and the dispatch loop, which never suspend for long
\* enough to let a handler run.
ForecastReturns ==
    /\ pc = "forecast"
    /\ \E o \in {<<"forecast", "throws">>, <<"detect", "throws">>,
                 <<"detect", "empty">>}
                  \cup (IF mode = "paper"
                        THEN {<<"size", "throws">>, <<"size", "empty">>,
                              <<"dispatch", "throws">>, <<"dispatch", "ok">>}
                        ELSE {<<"detect", "ok">>}) :
         /\ pc' = IF o[2] = "throws" THEN AfterThrow(o[1])
                  ELSE IF mode = "paper" \/ o[2] = "empty" THEN "sleep"
                  ELSE "balance"
         /\ call' = [op |-> "stage", stage |-> o[1], result |-> o[2]]
    /\ UNCHANGED <<running, pending, cycles>>
    /\ UnchangedByLoop

\* Live mode: getBalance settles; generateSignals follows and the first
\* placeOrder is sent.
BalanceReturns ==
    /\ pc = "balance"
    /\ \E result \in {"throws", "empty", "ok"} :
         \E n \in (IF result = "ok" THEN 1..MaxSignals ELSE {0}) :
           /\ pc' = IF result = "throws" THEN AfterThrow("size")
                    ELSE IF result = "empty" THEN "sleep" ELSE "dispatch"
           /\ pending' = n
           /\ call' = [op |-> "stage", stage |-> "size", result |-> result]
    /\ UNCHANGED <<running, cycles>>
    /\ UnchangedByLoop

\* Live mode: placeOrder settles; a rejected order is caught and logged by
\* executeSignal itself, and the loop goes on to the next signal.
OrderReturns ==
    /\ pc = "dispatch"
    /\ \E result \in {"ok", "throws"} :
         /\ pending' = pending - 1
         /\ pc' = IF pending > 1 THEN "dispatch" ELSE "sleep"
         /\ call' = [op |-> "stage", stage |-> "dispatch", result |-> result]
    /\ UNCHANGED <<running, cycles>>
    /\ UnchangedByLoop

\* The sleep ends and the while condition is tested.
SleepEnds ==
    /\ pc = "sleep"
    /\ running => cycles < MaxLoopCycles
    /\ pc' = AfterSleep(running)
    /\ cycles' = IF pc' = "fetch" THEN cycles + 1 ELSE cycles
    /\ call' = [op |-> "wake"]
    /\ UNCHANGED <<running, pending>>
    /\ UnchangedByLoop

InitLoop ==
    /\ InitCommon
    /\ config = DefaultConfig
    /\ mode \in {"paper", "live"}

NextLoop ==
    \/ Start
    \/ Stop
    \/ FetchReturns
    \/ ForecastReturns
    \/ BalanceReturns
    \/ OrderReturns
    \/ SleepEnds

SpecLoop == InitLoop /\ [][NextLoop]_vars

-----------------------------------------------------------------------------
(* LLMForecaster.forecastBatch, one call.  batch.log is the trace of what  *)
(* the call did: each request sent, each response received, each backoff  *)
(* and each courtesy delay begun, with the market index and the attempt.   *)

\* Backoff of callWithRetry: 15 s doubling per attempt, at most 120 s.
BackoffBaseMs == 15000
BackoffCapMs == 120000

\* retry-after header values, in seconds; 0 is a missing header.
RetryAfterHints == {0, 7}

\* The markets argument: the first n tickers.
BatchInputs == {SubSeq(<<"A", "B", "C", "D">>, 1, n) : n \in 0..MaxBatch}

\* ms: the length of a sleep begun, or the retry-after hint (in ms) that a
\* response carried; 0 otherwise.
Event(ev, b, status) ==
    [ev |-> ev, i |-> b.i, attempt |-> b.attempt, status |-> status, ms |-> 0]

\* await fetch(...) in callWithRetry
SendRequest(b) ==
    [b EXCEPT !.phase = "request", !.log = Append(@, Event("request", b, "-"))]

\* i++ and the loop test of forecastBatch, then forecast(markets[i]) up to
\* its request, or return forecasts.
NextMarket(b) ==
    LET nb == [b EXCEPT !.i = @ + 1, !.attempt = 0]
    IN  IF nb.i > Len(nb.markets) THEN [nb EXCEPT !.phase = "done"]
        ELSE SendRequest(nb)

\* Mutant: the error of one forecast leaves forecastBatch.
AfterFailureRethrows(b) == [b EXCEPT !.phase = "thrown"]

\* catch (err) { logger.error } of forecastBatch
AfterFailure(b) == NextMarket(b)

\* forecasts.push(forecast), then the courtesy delay unless it is off or
\* this was the last market.
AfterSuccess(b) ==
    LET pushed == [b EXCEPT !.forecasts = Append(@, b.markets[b.i])]
    IN  IF b.delay > 0 /\ b.i < Len(b.markets)
        THEN [pushed EXCEPT !.phase = "delay",
                            !.log = Append(@, [Event("delay", b, "-")
                                                 EXCEPT !.ms = b.delay])]
        ELSE NextMarket(pushed)

\* if (attempt === MAX_RETRIES) throw
LastAttempt(attempt) == attempt = MaxRetries

\* retryAfterSec > 0 ? retryAfterSec * 1000
\*                   : Math.min(15_000 * Math.pow(2, attempt), 120_000)
BackoffMs(retryAfterSec, attempt) ==
    IF retryAfterSec > 0 THEN retryAfterSec * 1000
    ELSE IF BackoffBaseMs * 2^attempt < BackoffCapMs
         THEN BackoffBaseMs * 2^attempt ELSE BackoffCapMs

\* if (response.status === 429): give up or back off
AfterRateLimit(b, retryAfterSec) ==
    IF LastAttempt(b.attempt) THEN AfterFailure(b)
    ELSE [b EXCEPT !.phase = "backoff",
                   !.log = Append(@, [Event("backoff", b, "-") EXCEPT
                              !.ms = BackoffMs(retryAfterSec, b.attempt)])]

\* What callWithRetry and forecast do with the outcome of fetch: a 429
\* whose retry-after header parses to retryAfterSec (0 when absent), another
\* response that is not ok ("error"), fetch rejecting ("transport": the
\* await is outside any try of callWithRetry), or a usable answer.
Respond(b, status, retryAfterSec) ==
    LET r == [b EXCEPT !.log = Append(@, [Event("response", b, status)
                                            EXCEPT !.ms = retryAfterSec * 1000])]
    IN  IF status = "rate_limited" THEN AfterRateLimit(r, retryAfterSec)
        ELSE IF status \in {"error", "transport"} THEN AfterFailure(r)
        ELSE AfterSuccess(r)

UnchangedByForecaster ==
    UNCHANGED <<config, mode, running, pc, pending, now, dailyLoss,
                tradesThisHour, lastHourReset, balance, positions, trades,
                ordered, cycles, ticks, sigTimes, audit>>

\* forecastBatch(markets, context, delayMs): effectiveDelay is delayMs when
\* given (0 turns the delay off), else 1000 ms.
ForecastBatchCall ==
    /\ batch.phase = "idle"
    /\ \E markets \in BatchInputs, delay \in {0, 1000} :
         batch' = NextMarket([IdleBatch EXCEPT !.markets = markets,
                                              !.delay = delay])
    /\ call' = [op |-> "forecastBatch"]
    /\ UnchangedByForecaster

\* A request comes back: a usable answer, a 429 with or without a
\* retry-after hint, another error status, or no response at all.
ResponseArrives ==
    /\ batch.phase = "request"
    /\ \E status \in {"ok", "rate_limited", "error", "transport"},
          retryAfterSec \in RetryAfterHints :
         /\ status # "rate_limited" => retryAfterSec = 0
         /\ batch' = Respond(batch, status, retryAfterSec)
         /\ call' = [op |-> "response", status |-> status]
    /\ UnchangedByForecaster

\* await sleep(backoffMs) or await sleep(effectiveDelay) ends.
TimerFires ==
    /\ batch.phase \in {"backoff", "delay"}
    /\ batch' = IF batch.phase = "backoff"
                THEN SendRequest([batch EXCEPT !.attempt = @ + 1])
                ELSE NextMarket(batch)
    /\ call' = [op |-> "timer"]
    /\ UnchangedByForecaster

InitForecast ==
    /\ InitCommon
    /\ config = DefaultConfig
    /\ mode = "forecaster"

NextForecast == ForecastBatchCall \/ ResponseArrives \/ TimerFires

SpecForecast == InitForecast /\ [][NextForecast]_vars

-----------------------------------------------------------------------------
(* The candidate filter, the candidate selection and the edge detection,   *)
(* called on their own.                                                    *)

\* MARKET_CATEGORIES unset: no category filter.
AnyCategoryConfig == [DefaultConfig EXCEPT !.marketCategories = <<>>]

\* Markets around every test of filterMarkets: open or not, YES quotes
\* absent, at and on either side of 5 and 95 cents, volume 9 and 10, and
\* categories that match by case or by containment or not at all.
FilterCatalog ==
    {[Market("F", yesBid, yesAsk, 0, 0, volume)
         EXCEPT !.status = status, !.category = category] :
       yesBid \in {0, 4, 5, 94, 95, 96}, yesAsk \in {0, 4, 5, 6, 95, 96},
       volume \in {9, 10}, status \in {"open", "closed"},
       category \in {"Politics", "US Politics", "sports"}}

\* filterMarkets and selectDiverseCandidates keep nothing between calls: a
\* behaviour is one call of either.
FilterMarketsCall ==
    /\ call = NoCall
    /\ \E m \in FilterCatalog :
         call' = [op |-> "filter", markets |-> <<MktA, m>>,
                  kept |-> FilterMarkets(<<MktA, m>>)]
    /\ UnchangedByDetector

\* Markets of four groups: two categories, an event prefix standing in for
\* a missing category, and "other"; volumes with a tie inside a group.
SelectPool ==
    {[Market("S1", 48, 52, 48, 52, 30) EXCEPT !.category = "sports"],
     [Market("S2", 48, 52, 48, 52, 20) EXCEPT !.category = "sports"],
     [Market("S3", 48, 52, 48, 52, 20) EXCEPT !.category = "sports"],
     Market("P1", 48, 52, 48, 52, 25),
     [Market("E1", 48, 52, 48, 52, 40) EXCEPT !.category = ""],
     [Market("O1", 48, 52, 48, 52, 5)
         EXCEPT !.category = "", !.eventPrefix = ""]}

\* The markets argument: up to MaxSelect different markets in any order.
SelectInputs ==
    {ms \in UNION {[1..n -> SelectPool] : n \in 0..MaxSelect} :
        \A i, j \in 1..Len(ms) : i # j => ms[i] # ms[j]}

SelectDiverseCall ==
    /\ call = NoCall
    /\ \E markets \in SelectInputs, count \in 0..(MaxSelect + 1) :
         call' = [op |-> "select", markets |-> markets, count |-> count,
                  selected |-> SelectDiverseCandidates(markets, count)]
    /\ UnchangedByDetector

InitFilter ==
    /\ InitCommon
    /\ config \in {DefaultConfig, AnyCategoryConfig}
    /\ mode = "filter"

\* Probabilities of YES an estimate may carry: 0, 0.01, 0.5, 0.99 and 1.
EstimateProbs == {0, 2, 100, 198, 200}

\* detectEdges(markets, forecasts) with one market and an estimate for it.
DetectEdgesCall ==
    /\ call = NoCall
    /\ \E m \in {MktA, MktC, MktD}, p \in EstimateProbs :
         LET forecasts == <<Forecast(m.ticker, p, 90)>>
         IN  call' = [op |-> "detectEdges", markets |-> <<m>>,
                      forecasts |-> forecasts,
                      edges |-> DetectEdges(<<m>>, forecasts)]
    /\ UnchangedByDetector

NextFilter == FilterMarketsCall \/ SelectDiverseCall \/ DetectEdgesCall

SpecFilter == InitFilter /\ [][NextFilter]_vars

-----------------------------------------------------------------------------
(* Properties.  Gs is the generateSignals call of the step just taken,     *)
(* whether made directly or from inside runCycle.                          *)

Gs == IF call.op = "gs" THEN call
      ELSE IF call.op = "cycle" THEN call.gs ELSE NoCall

GsCalled == Gs.op = "gs"

\* Sum of positionSizeUsd (cents) over a list of signals.
SignalTotal(signals) == SumSeq([i \in 1..Len(signals) |-> signals[i].positionSizeUsd])

\* A call that would size trades but for the gate under test: edges that
\* qualify, an empty portfolio, headroom.
CouldTrade(gs) ==
    /\ gs.edges = BusyEdges
    /\ gs.portfolio.positions = <<>>
    /\ gs.portfolio.totalExposureUsd = 0

\* C1: a generateSignals call made while dailyLoss is at or above 10% of
\* maxPortfolioExposureUsd returns no signal and does not raise
\* tradesThisHour.
C1_DailyLossGate ==
    (GsCalled /\ Gs.lossBefore * 10 >= config.maxPortfolioExposureUsd)
        => /\ Gs.signals = <<>>
           /\ Gs.tradesAfter <= Gs.tradesBefore
           /\ tradesThisHour = Gs.tradesAfter

C1_Witness ==
    /\ GsCalled
    /\ Gs.lossBefore * 10 >= config.maxPortfolioExposureUsd
    /\ CouldTrade(Gs)
    /\ Gs.tradesBefore < MaxTradesPerHour

\* C2: once tradesThisHour has reached 20, a generateSignals call made no
\* more than 3600 s after the stored window start returns no signal; and the
\* signals produced within one window never number more than 20.
C2_HourlyGate ==
    /\ (GsCalled /\ Gs.tradesBefore >= 20 /\ Gs.at - Gs.windowBefore <= 3600000)
           => (Gs.signals = <<>> /\ Gs.tradesAfter = Gs.tradesBefore)
    /\ tradesThisHour <= 20
    /\ \A i \in 1..Len(sigTimes) : sigTimes[i].n <= 20

C2_Witness ==
    /\ GsCalled
    /\ Gs.tradesBefore >= 20
    /\ Gs.at - Gs.windowBefore <= 3600000
    /\ Gs.lossBefore = 0
    /\ CouldTrade(Gs)

\* C3: the signals produced within any interval of 3600 s number at most 20.
C3_AnyHourAtMostTwenty ==
    \A i \in 1..Len(sigTimes) : \A j \in i..Len(sigTimes) :
        sigTimes[j].last - sigTimes[i].first < 3600000
            => SumSeq([k \in 1..(j - i + 1) |-> sigTimes[i + k - 1].n]) <= 20

\* C4: in paper mode the ledger's total exposure never exceeds
\* maxPortfolioExposureUsd, and the signals of one generateSignals call sum
\* to no more than maxPortfolioExposureUsd less the snapshot's exposure.
C4_ExposureWithinCap ==
    mode = "paper" =>
        /\ GetPortfolio(Ledger).totalExposureUsd <= config.maxPortfolioExposureUsd
        /\ GsCalled
               => SignalTotal(Gs.signals)
                      <= config.maxPortfolioExposureUsd - Gs.portfolio.totalExposureUsd

\* C5: no signal's positionSizeUsd exceeds maxPositionUsd.
C5_PositionWithinCap ==
    GsCalled => \A i \in 1..Len(Gs.signals) :
                    Gs.signals[i].positionSizeUsd <= config.maxPositionUsd

\* C6: in paper mode executeSignal never reaches PaperTrader.execute for a
\* contract that already has an open position.
C6_NoExecuteOnHeldContract ==
    (call.op = "cycle" /\ mode = "paper")
        => \A i \in 1..Len(call.execs) : ~call.execs[i].held

\* C7: generateSignals returns no signal whose ticker is among the
\* snapshot's positions, whatever the sides of the position and the edge.
C7_NoSignalForHeldTicker ==
    GsCalled => \A i \in 1..Len(Gs.signals) :
                  \A j \in 1..Len(Gs.portfolio.positions) :
                    Gs.portfolio.positions[j].ticker # Gs.signals[i].edge.ticker

C7_Witness ==
    /\ GsCalled
    /\ Gs.signals # <<>>
    /\ \E i \in 1..Len(Gs.edges) : \E j \in 1..Len(Gs.portfolio.positions) :
          /\ Gs.edges[i].ticker = Gs.portfolio.positions[j].ticker
          /\ Gs.edges[i].side # Gs.portfolio.positions[j].side
          /\ Gs.edges[i].forecast.confidence >= MinConfidence

\* C8: every signal has net odds b = (1 - cost)/cost > 0 and a full Kelly
\* fraction (p*b - (1 - p))/b > 0; with cost in (0, 1) the latter is
\* p*(1 - cost) - (1 - p)*cost > 0, so p = cost is refused.
C8_KellyPositive ==
    GsCalled => \A i \in 1..Len(Gs.signals) :
        LET p == Gs.signals[i].edge.modelProb
            cost == Gs.signals[i].edge.marketProb
        IN  /\ cost > 0
            /\ cost < ProbScale
            /\ p * (ProbScale - cost) - (ProbScale - p) * cost > 0
            /\ Gs.signals[i].kellyFraction.n > 0
            /\ Gs.signals[i].kellyFraction.d > 0

C8_Witness ==
    /\ GsCalled
    /\ Gs.signals # <<>>
    /\ Gs.tradesBefore < MaxTradesPerHour
    /\ \E i \in 1..Len(Gs.edges) :
          /\ Gs.edges[i].modelProb = Gs.edges[i].marketProb
          /\ Gs.edges[i].forecast.confidence >= MinConfidence
          /\ \A j \in 1..Len(Gs.portfolio.positions) :
                Gs.portfolio.positions[j].ticker # Gs.edges[i].ticker


\* C3 (as amended): a reset window holds at most 20 signals and a window is
\* replaced only by a call made more than 3600 s after its start, every
\* signal falling inside its window; hence signals less than 3600 s apart lie in at most two
\* successive windows and number at most 40.
C3_TwoWindowsPerHour ==
    /\ GsCalled => \/ Gs.windowAfter = Gs.windowBefore
                   \/ Gs.windowAfter - Gs.windowBefore > 3600000
    /\ \A i \in 1..Len(sigTimes) :
          /\ sigTimes[i].n <= 20
          /\ sigTimes[i].window <= sigTimes[i].first
          /\ sigTimes[i].first <= sigTimes[i].last
    /\ \A i \in 1..Len(sigTimes) : \A j \in (i + 1)..Len(sigTimes) :
          /\ sigTimes[j].window - sigTimes[i].window > 3600000
          /\ sigTimes[i].last < sigTimes[j].window
          /\ sigTimes[j].last - sigTimes[i].first < 3600000
                => /\ j = i + 1
                   /\ sigTimes[i].n + sigTimes[j].n <= 40

C3_Witness ==
    \E i \in 1..Len(sigTimes) :
        /\ i + 1 <= Len(sigTimes)
        /\ sigTimes[i + 1].last - sigTimes[i].first < 3600000
        /\ sigTimes[i].n + sigTimes[i + 1].n > 20

\* The dollar size after the caps and the floor, times the denominator d of
\* the signal's Kelly fraction: bankroll * kellyFraction, at most
\* maxPositionUsd, at most the exposure left, at least $1 (all in cents).
MinOf(a, b) == IF a <= b THEN a ELSE b

ClampedTimesD(gs, i) ==
    LET s == gs.signals[i]
        d == s.kellyFraction.d
        left == config.maxPortfolioExposureUsd - gs.portfolio.totalExposureUsd
                    - SignalTotal(SubSeq(gs.signals, 1, i - 1))
        capped == MinOf(MinOf(gs.portfolio.balanceUsd * s.kellyFraction.n,
                              config.maxPositionUsd * d), left * d)
    IN  IF capped >= 100 * d THEN capped ELSE 100 * d

\* C9: every returned signal is a buy on its edge's side, priced at that
\* side's ask (> 0), for contracts = floor(clamped size / limitPrice) >= 1,
\* with positionSizeUsd = contracts * limitPrice (cents).
C9_SignalWellFormed ==
    GsCalled => \A i \in 1..Len(Gs.signals) :
        LET s == Gs.signals[i]
            d == s.kellyFraction.d
        IN  /\ s.action = "buy"
            /\ s.side = s.edge.side
            /\ s.edge \in Range(Gs.edges)
            /\ s.limitPrice = (IF s.edge.side = "yes" THEN s.edge.market.yesAsk
                               ELSE s.edge.market.noAsk)
            /\ s.limitPrice > 0
            /\ s.contracts \in Nat
            /\ s.contracts >= 1
            /\ s.contracts * s.limitPrice * d <= ClampedTimesD(Gs, i)
            /\ ClampedTimesD(Gs, i) < (s.contracts + 1) * s.limitPrice * d
            /\ s.positionSizeUsd = s.contracts * s.limitPrice

\* A signal whose realised size is below its clamped size, next to an edge
\* with no ask that was refused.
C9_Witness ==
    /\ GsCalled
    /\ \E i \in 1..Len(Gs.signals) :
          /\ Gs.signals[i].contracts > 1
          /\ Gs.signals[i].positionSizeUsd * Gs.signals[i].kellyFraction.d
                 < ClampedTimesD(Gs, i)

\* The market-implied probability of a side as detectEdges reads it: the
\* bid/ask midpoint when both are quoted, else the ask, else the bid, else 50%.
ImpliedOf(m, side) ==
    LET bid == IF side = "yes" THEN m.yesBid ELSE m.noBid
        ask == IF side = "yes" THEN m.yesAsk ELSE m.noAsk
    IN  IF bid > 0 /\ ask > 0 THEN bid + ask
        ELSE IF ask # 0 THEN 2 * ask ELSE IF bid # 0 THEN 2 * bid ELSE 100

ModelOf(f, side) == IF side = "yes" THEN f.modelProbYes ELSE ProbScale - f.modelProbYes

CycleDetected == call.op = "cycle" /\ call.outcome \in {"no_edges", "done"}

\* C10: detectEdges emits the edge of a side of a forecast market if and
\* only if model probability minus implied probability strictly exceeds
\* minEdgeThreshold, each side on its own, and every emitted edge has
\* edge = modelProb - marketProb > minEdgeThreshold.
C10_EdgeIffAboveThreshold ==
    CycleDetected =>
        /\ \A i \in 1..Len(call.edges) :
              /\ call.edges[i].edge > config.minEdgeThreshold
              /\ call.edges[i].edge = call.edges[i].modelProb - call.edges[i].marketProb
        /\ \A i \in 1..Len(call.candidates) : \A k \in 1..Len(call.forecasts) :
              call.forecasts[k].ticker = call.candidates[i].ticker =>
                \A side \in {"yes", "no"} :
                    (\E e \in Range(call.edges) :
                        /\ e.ticker = call.candidates[i].ticker
                        /\ e.side = side
                        /\ e.modelProb = ModelOf(call.forecasts[k], side)
                        /\ e.marketProb = ImpliedOf(call.candidates[i], side))
                    <=> (ModelOf(call.forecasts[k], side)
                             - ImpliedOf(call.candidates[i], side)
                           > config.minEdgeThreshold)

\* A cycle in which one side sits exactly on the threshold and the other
\* side of the same market is emitted.
C10_Witness ==
    /\ CycleDetected
    /\ \E i \in 1..Len(call.candidates) : \E k \in 1..Len(call.forecasts) :
          /\ call.forecasts[k].ticker = call.candidates[i].ticker
          /\ ModelOf(call.forecasts[k], "yes") - ImpliedOf(call.candidates[i], "yes")
                 = config.minEdgeThreshold
          /\ \E e \in Range(call.edges) :
                e.ticker = call.candidates[i].ticker /\ e.side = "no"


\* The open position on a ticker in a list of positions, if any.
Held(ps, ticker) == SelectSeq(ps, LAMBDA pos : pos.ticker = ticker)

ExecuteCalled == call.op = "execute"

SettleCalled == call.op = "settle"

\* C16: execute with cost = contracts * limitPrice above the cash balance
\* returns an unfilled record and leaves balance, positions and the trade
\* log as they were; with cost <= balance it returns a filled record and
\* debits the balance by exactly cost.
C16_ExecuteFillsOrLeavesAlone ==
    ExecuteCalled =>
        LET cost == call.signal.contracts * call.signal.limitPrice
        IN  IF cost > call.before.balance
            THEN /\ call.record.filled = FALSE
                 /\ balance = call.before.balance
                 /\ positions = call.before.positions
                 /\ trades = call.before.trades
            ELSE /\ call.record.filled = TRUE
                 /\ balance = call.before.balance - cost

C16_Witness ==
    /\ ExecuteCalled
    /\ call.signal.contracts * call.signal.limitPrice > call.before.balance
    /\ call.before.positions # <<>>
    /\ call.before.trades # <<>>

\* C17: a filled execute on a contract held on the same side gives
\* newCount = oldCount + signalCount and
\* newAvg = (oldAvg * oldCount + signalPrice * signalCount) / newCount;
\* and every open position's contracts and cost basis contracts * avgPrice
\* are the sums over the fills that built it.
C17_PositionAveraging ==
    /\ (ExecuteCalled /\ call.record.filled) =>
          \A i \in 1..Len(call.before.positions) :
             LET old == call.before.positions[i]
                 new == positions[i]
             IN  (old.ticker = call.signal.edge.ticker /\ old.side = call.signal.side)
                 => /\ new.ticker = old.ticker
                    /\ new.side = old.side
                    /\ new.contracts = old.contracts + call.signal.contracts
                    /\ new.avgPrice.d > 0
                    /\ new.avgPrice.n * new.contracts * old.avgPrice.d
                         = (old.avgPrice.n * old.contracts
                              + call.signal.limitPrice * call.signal.contracts
                                  * old.avgPrice.d) * new.avgPrice.d
    /\ \A i \in 1..Len(positions) : \A k \in 1..Len(audit.fills) :
          audit.fills[k].ticker = positions[i].ticker
             => /\ positions[i].contracts = audit.fills[k].contracts
                /\ positions[i].avgPrice.n * positions[i].contracts
                     = audit.fills[k].cost * positions[i].avgPrice.d

\* 10 @ 40 and 5 @ 45 on the same side: two fills behind one position whose
\* average price is not a whole number of cents.
C17_Witness ==
    /\ ExecuteCalled
    /\ call.record.filled
    /\ \E i \in 1..Len(positions) : \E k \in 1..Len(audit.fills) :
          /\ audit.fills[k].ticker = positions[i].ticker
          /\ audit.fills[k].n = 2
          /\ positions[i].contracts = 15
          /\ positions[i].avgPrice.d # 1

\* C18: settle on an open position returns contracts * $1 minus
\* contracts * avgPrice / 100 when the position's side is the outcome and
\* minus contracts * avgPrice / 100 otherwise (in cents here).
C18_SettlePnl ==
    SettleCalled =>
        \A i \in 1..Len(call.before.positions) :
            LET pos == call.before.positions[i]
            IN  pos.ticker = call.ticker
                => call.pnl * pos.avgPrice.d
                     = IF pos.side = call.result
                       THEN pos.contracts * 100 * pos.avgPrice.d
                              - pos.contracts * pos.avgPrice.n
                       ELSE -(pos.contracts * pos.avgPrice.n)

\* 20 contracts at an average of 50 cents, built from 10 @ 40 and 10 @ 60,
\* settled on their own side: + $10.
C18_Witness ==
    /\ SettleCalled
    /\ call.pnl = 1000
    /\ \E i \in 1..Len(call.before.positions) :
          /\ call.before.positions[i].ticker = call.ticker
          /\ call.before.positions[i].side = call.result
          /\ call.before.positions[i].contracts = 20
          /\ call.before.positions[i].avgPrice = RInt(50)
    /\ \E k \in 1..Len(call.before.trades) : call.before.trades[k].limitPrice = 60

\* C19: settle credits cash by contracts * $1 when the position's side is
\* the outcome and by nothing otherwise, removes the position either way and
\* leaves the other positions as they were; on a contract with no open
\* position it returns 0 and changes neither balance nor positions.
C19_SettleFrame ==
    SettleCalled =>
        LET held == Held(call.before.positions, call.ticker)
        IN  IF held = <<>>
            THEN /\ call.pnl = 0
                 /\ balance = call.before.balance
                 /\ positions = call.before.positions
            ELSE /\ Len(held) = 1
                 /\ balance = call.before.balance
                                + (IF held[1].side = call.result
                                   THEN held[1].contracts * 100 ELSE 0)
                 /\ Held(positions, call.ticker) = <<>>
                 /\ positions = SelectSeq(call.before.positions,
                                          LAMBDA pos : pos.ticker # call.ticker)
                 /\ Len(positions) = Len(call.before.positions) - 1

\* A winning settlement while another position is open.
C19_Witness ==
    /\ SettleCalled
    /\ Len(call.before.positions) = 2
    /\ Len(positions) = 1
    /\ \E i \in 1..2 :
          /\ call.before.positions[i].ticker = call.ticker
          /\ call.before.positions[i].side = call.result
    /\ balance > call.before.balance

\* C20: after any execute and settle calls, getPortfolio().realizedPnl
\* (balance - initialBalance + totalExposure) is the sum of the P&L values
\* settle has returned so far, hence 0 while nothing has been settled.
C20_RealizedPnlIsSettledSum ==
    mode = "ledger" => GetPortfolio(Ledger).realizedPnl = audit.pnl


ImpliedCalled == call.op = "implied"

ArbCalled == call.op = "arb"

\* C11: the implied probability of a side is (bid + ask)/2/100 when both
\* are quoted, the one quote/100 when exactly one is, and 0.50 when neither
\* is; for quotes of 0..100 cents it lies in (0, 1].  (Units of 1/200.)
C11_ImpliedProb ==
    ImpliedCalled =>
        LET bid == IF call.side = "yes" THEN call.market.yesBid ELSE call.market.noBid
            ask == IF call.side = "yes" THEN call.market.yesAsk ELSE call.market.noAsk
        IN  /\ (bid > 0 /\ ask > 0) => call.prob = bid + ask
            /\ (bid > 0 /\ ask = 0) => call.prob = 2 * bid
            /\ (bid = 0 /\ ask > 0) => call.prob = 2 * ask
            /\ (bid = 0 /\ ask = 0) => call.prob = 100
            /\ call.prob > 0
            /\ call.prob <= ProbScale

\* A side with neither quote.
C11_Witness ==
    /\ ImpliedCalled
    /\ call.side = "no"
    /\ call.market.noBid = 0
    /\ call.market.noAsk = 0
    /\ call.prob = 100

\* How often a market occurs in the list scanned, and how often it is
\* listed under a type.
Occurrences(markets, m) == Cardinality({i \in 1..Len(markets) : markets[i] = m})

Listings(opps, m, type) ==
    Cardinality({i \in 1..Len(opps) : opps[i].ticker = m.ticker /\ opps[i].type = type})

\* C14: a market with yesAsk = 0 or noAsk = 0 is never listed; otherwise,
\* with total = yesAsk + noAsk, it is listed as guaranteed_profit iff
\* total < 98 and as wide_spread iff total > 115 with both asks below 95;
\* nothing else is listed and no market is listed under both types.
C14_ArbClassification ==
    ArbCalled =>
        /\ \A i \in 1..Len(call.markets) :
              LET m == call.markets[i]
                  total == m.yesAsk + m.noAsk
                  quoted == m.yesAsk # 0 /\ m.noAsk # 0
              IN  /\ Listings(call.opps, m, "guaranteed_profit")
                        = IF quoted /\ total < 98
                          THEN Occurrences(call.markets, m) ELSE 0
                  /\ Listings(call.opps, m, "wide_spread")
                        = IF quoted /\ total > 115 /\ m.yesAsk < 95 /\ m.noAsk < 95
                          THEN Occurrences(call.markets, m) ELSE 0
                  /\ Listings(call.opps, m, "guaranteed_profit") = 0
                        \/ Listings(call.opps, m, "wide_spread") = 0
        /\ \A k \in 1..Len(call.opps) :
              /\ call.opps[k].type \in {"guaranteed_profit", "wide_spread"}
              /\ call.opps[k].total = call.opps[k].yesAsk + call.opps[k].noAsk
              /\ \E i \in 1..Len(call.markets) :
                    /\ call.markets[i].ticker = call.opps[k].ticker
                    /\ call.markets[i].yesAsk = call.opps[k].yesAsk
                    /\ call.markets[i].noAsk = call.opps[k].noAsk

\* A scan of a total of exactly 98 (not listed), a total below it (listed)
\* and a wide total with an ask of 95 (not listed).
C14_Witness ==
    /\ ArbCalled
    /\ Len(call.opps) = 1
    /\ call.opps[1].type = "guaranteed_profit"
    /\ \E i \in 1..Len(call.markets) :
          call.markets[i].yesAsk + call.markets[i].noAsk = 98
    /\ \E i \in 1..Len(call.markets) : call.markets[i].yesAsk = 95

\* C15: in the list returned, every guaranteed_profit entry comes before
\* every wide_spread entry, guaranteed_profit entries are in non-decreasing
\* total and wide_spread entries in non-increasing total.
C15_ArbOrder ==
    ArbCalled =>
        \A i \in 1..Len(call.opps) : \A j \in (i + 1)..Len(call.opps) :
            LET a == call.opps[i]
                b == call.opps[j]
            IN  /\ ~(a.type = "wide_spread" /\ b.type = "guaranteed_profit")
                /\ (a.type = "guaranteed_profit" /\ b.type = "guaranteed_profit")
                      => a.total <= b.total
                /\ (a.type = "wide_spread" /\ b.type = "wide_spread")
                      => a.total >= b.total

\* A scan that meets a narrow wide spread first, then a wider one, then an
\* arbitrage: the list returned reverses all three.
C15_Witness ==
    /\ ArbCalled
    /\ Len(call.markets) = 3
    /\ Len(call.opps) = 3
    /\ call.opps[1].type = "guaranteed_profit"
    /\ call.opps[1].ticker = call.markets[3].ticker
    /\ call.opps[2].type = "wide_spread"
    /\ call.opps[2].ticker = call.markets[2].ticker
    /\ call.opps[3].ticker = call.markets[1].ticker
    /\ call.opps[2].total > call.opps[3].total


\* The place in the edge list of the edge behind the k-th signal.
EdgeIndex(gs, k) == CHOOSE i \in 1..Len(gs.edges) : gs.edges[i] = gs.signals[k].edge

Sized(gs, i) == \E k \in 1..Len(gs.signals) : gs.signals[k].edge = gs.edges[i]

\* An edge refused whatever the budget left: low confidence, a contract
\* already held, no positive Kelly fraction, or no ask.
RefusedOnMerit(gs, e) ==
    \/ e.forecast.confidence < 30
    \/ \E j \in 1..Len(gs.portfolio.positions) :
          gs.portfolio.positions[j].ticker = e.ticker
    \/ e.marketProb >= ProbScale
    \/ e.modelProb * (ProbScale - e.marketProb)
          - (ProbScale - e.modelProb) * e.marketProb <= 0
    \/ (IF e.side = "yes" THEN e.market.yesAsk ELSE e.market.noAsk) <= 0

\* C12: detectEdges returns its edges in non-increasing order of edge, and
\* generateSignals takes them in that order: signals follow the order of
\* the edges, an edge left unsized for want of budget is followed by no
\* sized edge, and so has an edge no greater than any sized one.
C12_BestEdgesFirst ==
    /\ CycleDetected =>
          \A i \in 1..Len(call.edges) : \A j \in (i + 1)..Len(call.edges) :
              call.edges[i].edge >= call.edges[j].edge
    /\ (call.op = "cycle" /\ GsCalled) =>
          /\ Gs.edges = call.edges
          /\ \A k \in 1..Len(Gs.signals) :
                /\ Sized(Gs, EdgeIndex(Gs, k))
                /\ \A l \in (k + 1)..Len(Gs.signals) :
                      EdgeIndex(Gs, k) < EdgeIndex(Gs, l)
          /\ \A i \in 1..Len(Gs.edges) :
                (~Sized(Gs, i) /\ ~RefusedOnMerit(Gs, Gs.edges[i]))
                   => /\ \A j \in (i + 1)..Len(Gs.edges) : ~Sized(Gs, j)
                      /\ \A k \in 1..Len(Gs.signals) :
                            Gs.edges[i].edge <= Gs.signals[k].edge.edge

\* A cycle whose exposure ran out: an edge left unsized for want of budget,
\* smaller than a sized one.
C12_Witness ==
    /\ call.op = "cycle"
    /\ GsCalled
    /\ \E i \in 1..Len(Gs.edges) :
          /\ ~Sized(Gs, i)
          /\ ~RefusedOnMerit(Gs, Gs.edges[i])
          /\ \E k \in 1..Len(Gs.signals) :
                Gs.edges[i].edge < Gs.signals[k].edge.edge

\* The hourly count a generateSignals call starts its loop with, and whether
\* both budget gates are still open when the loop reaches edge i: fewer than
\* 20 trades counted and exposure left after the signals of earlier edges.
StartCount(gs) == IF gs.at - gs.windowBefore > 3600000 THEN 0 ELSE gs.tradesBefore

SizedBefore(gs, i) == {k \in 1..Len(gs.signals) : EdgeIndex(gs, k) < i}

SizedBeforeTotal(gs, i) ==
    SumSeq([k \in 1..Len(gs.signals) |->
               IF EdgeIndex(gs, k) < i THEN gs.signals[k].positionSizeUsd ELSE 0])

BudgetLeftAt(gs, i) ==
    /\ StartCount(gs) + Cardinality(SizedBefore(gs, i)) < 20
    /\ config.maxPortfolioExposureUsd - gs.portfolio.totalExposureUsd
           - SizedBeforeTotal(gs, i) > 0

\* C26: the signals of a generateSignals call are a subsequence of its edges,
\* in order; once the hourly-count gate or the remaining-exposure gate has
\* tripped at an edge, neither that edge nor a later one yields a signal;
\* and an edge reached with both gates open yields a signal unless it is
\* skipped for its own sake (confidence, a held contract, sizing), whatever
\* happened to the edges before it.
C26_GatesStopSkipsContinue ==
    GsCalled =>
      /\ \A k \in 1..Len(Gs.signals) :
            /\ Gs.signals[k].edge \in Range(Gs.edges)
            /\ \A l \in (k + 1)..Len(Gs.signals) :
                  EdgeIndex(Gs, k) < EdgeIndex(Gs, l)
      /\ \A i \in 1..Len(Gs.edges) :
            /\ ~BudgetLeftAt(Gs, i)
                  => \A j \in i..Len(Gs.edges) : ~Sized(Gs, j)
            /\ (BudgetLeftAt(Gs, i) /\ Gs.lossBefore * 10 < config.maxPortfolioExposureUsd)
                  => (Sized(Gs, i) <=> ~RefusedOnMerit(Gs, Gs.edges[i]))

\* A call that skips its first edge for low confidence, refuses others in
\* sizing, and still sizes a later edge.
C26_Witness ==
    /\ GsCalled
    /\ Gs.edges[1].forecast.confidence < 30
    /\ \E i \in 2..Len(Gs.edges) : \E j \in (i + 1)..Len(Gs.edges) :
          /\ BudgetLeftAt(Gs, i)
          /\ ~Sized(Gs, i)
          /\ Sized(Gs, j)

\* C27: no signal comes from an edge whose forecast confidence is below 0.30,
\* and an edge of confidence exactly 0.30 is not skipped for it: reached with
\* both gates open and nothing else against it, it is sized.
C27_ConfidenceFloor ==
    GsCalled =>
      /\ \A k \in 1..Len(Gs.signals) : Gs.signals[k].edge.forecast.confidence >= 30
      /\ \A i \in 1..Len(Gs.edges) :
            (/\ Gs.edges[i].forecast.confidence = 30
             /\ Gs.lossBefore * 10 < config.maxPortfolioExposureUsd
             /\ BudgetLeftAt(Gs, i)
             /\ \A j \in 1..Len(Gs.portfolio.positions) :
                   Gs.portfolio.positions[j].ticker # Gs.edges[i].ticker)
                => Sized(Gs, i)

\* A call that returned a signal for an edge of confidence exactly 0.30.
C27_Witness ==
    /\ GsCalled
    /\ \E k \in 1..Len(Gs.signals) : Gs.signals[k].edge.forecast.confidence = 30

\* C28: a generateSignals call at time t made more than 3600 s (strictly)
\* after the window start zeroes tradesThisHour and moves the window start to
\* t before any gate is tested, the daily-loss gate included; a call made no
\* later leaves both as they were (the counter then grows by the signals
\* returned).  No other operation touches either.
C28_LazyHourlyReset ==
    /\ [](GsCalled =>
            /\ tradesThisHour = Gs.tradesAfter
            /\ lastHourReset = Gs.windowAfter
            /\ IF Gs.at - Gs.windowBefore > 3600000
               THEN /\ Gs.windowAfter = Gs.at
                    /\ Gs.tradesAfter = Len(Gs.signals)
               ELSE /\ Gs.windowAfter = Gs.windowBefore
                    /\ Gs.tradesAfter = Gs.tradesBefore + Len(Gs.signals))
    /\ [][call'.op \in {"recordLoss", "resetDaily", "none"}
            => UNCHANGED <<lastHourReset, tradesThisHour>>]_vars

\* A call refused by the daily-loss gate that still reset a counter that had
\* trades on it.
C28_Witness ==
    /\ GsCalled
    /\ Gs.lossBefore * 10 >= config.maxPortfolioExposureUsd
    /\ Gs.at - Gs.windowBefore > 3600000
    /\ Gs.tradesBefore > 0
    /\ tradesThisHour = 0
    /\ lastHourReset = Gs.at

\* C29: recordLoss(amount) adds amount to dailyLoss, resetDaily zeroes it,
\* and no step other than resetDaily lowers it; so a breaker that has tripped
\* stays tripped, every generateSignals call returning nothing, until
\* resetDaily.
C29_OnlyResetDailyLowers ==
    [][/\ call'.op = "recordLoss" => dailyLoss' = dailyLoss + call'.amount
       /\ call'.op = "resetDaily" => dailyLoss' = 0
       /\ dailyLoss' < dailyLoss => call'.op = "resetDaily"
       /\ (dailyLoss * 10 >= config.maxPortfolioExposureUsd
              /\ call'.op # "resetDaily")
            => /\ dailyLoss' * 10 >= config.maxPortfolioExposureUsd
               /\ call'.op = "gs" => call'.signals = <<>>]_vars

\* C23: every cycle whose fetch succeeded ran the arbitrage scan over all the
\* fetched contracts, the cycles in which the candidate filter left no
\* contract included.
C23_ArbScanEveryFetchedCycle ==
    (call.op = "cycle" /\ call.outcome # "failed")
        => /\ call.arb.op = "arb"
           /\ call.arb.markets = call.markets
           /\ call.arb.opps = FindArbitrageOpportunities(call.markets)

\* The paper ledger's realized loss, as getPortfolio reports it, in a
\* portfolio snapshot.
RealizedLoss(portfolio) == 0 - portfolio.realizedPnl

\* C30: in a running paper agent the realized losses of the ledger reach the
\* daily-loss breaker: once they amount to 10% of maxPortfolioExposureUsd,
\* dailyLoss has reached the limit and a cycle produces no signal.
C30_LossesFeedBreaker ==
    (mode = "paper"
       /\ RealizedLoss(GetPortfolio(Ledger)) * 10 >= config.maxPortfolioExposureUsd)
        => /\ dailyLoss * 10 >= config.maxPortfolioExposureUsd
           /\ (call.op = "cycle" /\ GsCalled
                  /\ RealizedLoss(Gs.portfolio) * 10 >= config.maxPortfolioExposureUsd)
                => Gs.signals = <<>>

\* C21: no exception raised in the fetch, the filter, the forecast, edge
\* detection, sizing or dispatch leaves runCycle: start() is never rejected,
\* a stage that throws is followed by the sleep (a rejected live order, by
\* the rest of the dispatch), and while the agent is running the sleep is
\* followed by another cycle.
C21_CycleErrorsContained ==
    /\ [](pc # "rejected")
    /\ []((call.op = "stage" /\ call.result = "throws")
            => IF mode = "live" /\ call.stage = "dispatch"
               THEN pc \in {"dispatch", "sleep"}
               ELSE pc = "sleep")
    /\ [][(pc = "sleep" /\ running /\ pc' # pc)
            => (pc' = "fetch" /\ cycles' = cycles + 1)]_vars

\* A paper cycle whose dispatch threw, the agent still running and asleep.
C21_Witness ==
    /\ mode = "paper"
    /\ running
    /\ call.op = "stage"
    /\ call.stage = "dispatch"
    /\ call.result = "throws"
    /\ pc = "sleep"

\* C22: stop() changes nothing but the flag; a cycle under way when it is
\* called goes on through its forecast batch and its dispatch to the sleep;
\* once the flag is down no new cycle starts, and start() returns from the
\* sleep that follows the current cycle, and from nowhere else.
C22_StopBetweenCycles ==
    /\ [][call'.op = "stop" => UNCHANGED <<pc, pending, cycles>>]_vars
    /\ [][(~running /\ pc' # pc
              /\ pc \in {"fetch", "forecast", "balance", "dispatch"})
            => pc' \in {"forecast", "balance", "dispatch", "sleep"}]_vars
    /\ [][(pc = "dispatch" /\ call'.op = "stage")
            => /\ pending' = pending - 1
               /\ pc' = IF pending > 1 THEN "dispatch" ELSE "sleep"]_vars
    /\ [][(~running /\ pc # "idle") => (~running' /\ cycles' = cycles)]_vars
    /\ [][(pc' = "returned" /\ pc # "returned")
            => (pc = "sleep" /\ ~running)]_vars
    /\ [][(~running /\ pc = "sleep" /\ pc' # pc) => pc' = "returned"]_vars

\* An order dispatched after stop() was called, with another still to go.
C22_Witness ==
    /\ ~running
    /\ pc = "dispatch"
    /\ pending > 0
    /\ call.op = "stage"
    /\ call.stage = "dispatch"

\* The requests sent for market i so far, and what became of market i.
Requests(i) ==
    Cardinality({k \in 1..Len(batch.log) :
                    batch.log[k].ev = "request" /\ batch.log[k].i = i})

Answered(i, status) ==
    \E k \in 1..Len(batch.log) :
        /\ batch.log[k].ev = "response"
        /\ batch.log[k].i = i
        /\ batch.log[k].status = status

RateLimitedOut(i) ==
    \E k \in 1..Len(batch.log) :
        /\ batch.log[k].ev = "response"
        /\ batch.log[k].i = i
        /\ batch.log[k].status = "rate_limited"
        /\ batch.log[k].attempt = 3

\* The tickers of the markets answered "ok", in input order.
Successes ==
    LET idx == SelectSeq([k \in 1..Len(batch.markets) |-> k],
                         LAMBDA k : Answered(k, "ok"))
    IN  [k \in 1..Len(idx) |-> batch.markets[idx[k]]]

\* C24: forecastBatch never throws; no market gets more than 4 requests; a
\* market whose fourth request is rate limited is abandoned (no further
\* request, no forecast); a failed market is followed at once by the request
\* of the next one; and the call returns, every market requested, with the
\* forecasts of the markets that succeeded, in input order.
C24_RetriesBoundedBatchCompletes ==
    /\ batch.phase # "thrown"
    /\ \A i \in 1..Len(batch.markets) :
          /\ Requests(i) <= 4
          /\ RateLimitedOut(i)
                => (Requests(i) = 4 /\ ~Answered(i, "ok")
                      /\ batch.markets[i] \notin Range(batch.forecasts))
          /\ ((RateLimitedOut(i) \/ Answered(i, "error"))
                 /\ i < Len(batch.markets))
                => Requests(i + 1) >= 1
    /\ batch.phase = "done"
          => /\ \A i \in 1..Len(batch.markets) : Requests(i) >= 1
             /\ batch.forecasts = Successes

\* A finished batch whose first market was rate limited four times and whose
\* second market was forecast.
C24_Witness ==
    /\ batch.phase = "done"
    /\ Len(batch.markets) >= 2
    /\ RateLimitedOut(1)
    /\ Answered(2, "ok")
    /\ batch.forecasts = <<batch.markets[2]>>

\* C25: the requests are strictly sequential (a response lies between any
\* two requests) and, the delay being on, between the requests of two
\* different markets the delay is awaited, whether the earlier forecast
\* succeeded or failed.
C25_DelayBetweenMarkets ==
    \A p \in 1..Len(batch.log) : \A q \in (p + 1)..Len(batch.log) :
        (batch.log[p].ev = "request" /\ batch.log[q].ev = "request")
            => /\ \E r \in (p + 1)..(q - 1) : batch.log[r].ev = "response"
               /\ (batch.delay > 0 /\ batch.log[p].i # batch.log[q].i)
                     => \E r \in (p + 1)..(q - 1) : batch.log[r].ev = "delay"

\* The dollar size of signal i after the two caps and before the floor,
\* times the denominator d of its Kelly fraction (cents).
CappedTimesD(gs, i) ==
    LET s == gs.signals[i]
        d == s.kellyFraction.d
        left == config.maxPortfolioExposureUsd - gs.portfolio.totalExposureUsd
                    - SignalTotal(SubSeq(gs.signals, 1, i - 1))
    IN  MinOf(MinOf(gs.portfolio.balanceUsd * s.kellyFraction.n,
                    config.maxPositionUsd * d), left * d)

\* C31: the $1 floor comes after both caps.  A signal whose capped size is
\* below $1 is for floor(100 / ask) contracts; and an edge reached with both
\* gates open, nothing against it, and less than $1 of the smaller cap left
\* is sized, not refused.
C31_FloorAfterCaps ==
    GsCalled =>
      /\ \A k \in 1..Len(Gs.signals) :
            CappedTimesD(Gs, k) < 100 * Gs.signals[k].kellyFraction.d
               => /\ Gs.signals[k].contracts = 100 \div Gs.signals[k].limitPrice
                  /\ Gs.signals[k].contracts >= 1
      /\ \A i \in 1..Len(Gs.edges) :
            (/\ Gs.lossBefore * 10 < config.maxPortfolioExposureUsd
             /\ BudgetLeftAt(Gs, i)
             /\ ~RefusedOnMerit(Gs, Gs.edges[i])
             /\ MinOf(config.maxPositionUsd,
                      config.maxPortfolioExposureUsd
                         - Gs.portfolio.totalExposureUsd
                         - SizedBeforeTotal(Gs, i)) < 100)
                => \E k \in 1..Len(Gs.signals) :
                      /\ Gs.signals[k].edge = Gs.edges[i]
                      /\ Gs.signals[k].contracts
                             = 100 \div Gs.signals[k].limitPrice

\* A signal sized with less than $1 of exposure left: floored up to $1, it
\* spends more than was left.
C31_Witness ==
    /\ GsCalled
    /\ \E k \in 1..Len(Gs.signals) :
          LET left == config.maxPortfolioExposureUsd
                         - Gs.portfolio.totalExposureUsd
                         - SignalTotal(SubSeq(Gs.signals, 1, k - 1))
          IN  /\ left > 0
              /\ left < 100
              /\ Gs.signals[k].contracts = 100 \div Gs.signals[k].limitPrice
              /\ Gs.signals[k].positionSizeUsd > left

\* The cost basis of a list of positions, contracts * avgPrice each (cents).
CostBasis(ps) ==
    SumSeq([i \in 1..Len(ps) |-> (ps[i].contracts * ps[i].avgPrice.n)
                                     \div ps[i].avgPrice.d])

\* An execute on a contract held on the other side.
OppositeHeld ==
    /\ ExecuteCalled
    /\ \E i \in 1..Len(call.before.positions) :
          /\ call.before.positions[i].ticker = call.signal.edge.ticker
          /\ call.before.positions[i].side # call.signal.side

\* C32: a filled execute on a contract held on the opposite side debits the
\* cash by the new cost and puts a fresh position (the signal's side, count
\* and price) in the place of the stored one, the other positions staying
\* as they were; the ledger never holds two positions on one contract; the
\* replaced position's cost basis leaves the total exposure, and a later
\* settle pays on the stored position's contracts only.
C32_OppositeSideReplaces ==
    /\ (OppositeHeld /\ call.record.filled) =>
          LET t == call.signal.edge.ticker
              old == Held(call.before.positions, t)[1]
              cost == call.signal.contracts * call.signal.limitPrice
          IN  /\ balance = call.before.balance - cost
              /\ Len(positions) = Len(call.before.positions)
              /\ \A i \in 1..Len(positions) :
                    IF call.before.positions[i].ticker = t
                    THEN /\ positions[i].ticker = t
                         /\ positions[i].side = call.signal.side
                         /\ positions[i].contracts = call.signal.contracts
                         /\ positions[i].avgPrice.n
                               = call.signal.limitPrice * positions[i].avgPrice.d
                    ELSE positions[i] = call.before.positions[i]
              /\ CostBasis(positions)
                    = CostBasis(call.before.positions)
                        - (old.contracts * old.avgPrice.n) \div old.avgPrice.d
                        + cost
    /\ \A i \in 1..Len(positions) : \A j \in (i + 1)..Len(positions) :
          positions[i].ticker # positions[j].ticker
    /\ SettleCalled =>
          LET held == Held(call.before.positions, call.ticker)
          IN  /\ Len(held) <= 1
              /\ balance - call.before.balance
                    = IF held # <<>> /\ held[1].side = call.result
                      THEN 100 * held[1].contracts ELSE 0

\* 5 NO contracts of A bought while YES contracts of A were held.
C32_Witness ==
    /\ OppositeHeld
    /\ call.record.filled
    /\ call.signal.side = "no"
    /\ Len(call.before.positions) >= 2
    /\ Held(positions, "A")[1].side = "no"

\* The price filterMarkets tests, in half cents: the YES midpoint when both
\* YES quotes are present, otherwise the one that is.
HalfCents(m) ==
    IF m.yesBid > 0 /\ m.yesAsk > 0 THEN m.yesBid + m.yesAsk
    ELSE IF m.yesAsk > 0 THEN 2 * m.yesAsk ELSE 2 * m.yesBid

\* What the filter asks of a contract besides its price.
Eligible(m) ==
    /\ m.status = "open"
    /\ (m.yesBid # 0 \/ m.yesAsk # 0)
    /\ m.volume >= 10
    /\ (config.marketCategories # <<>>
          => m.category \in {"politics", "Politics", "US Politics"})

FilterCalled == call.op = "filter"

\* C33 as stated: a contract is kept iff it is eligible and its price is
\* strictly between 5 and 95 cents.
C33_PriceStrictlyInside ==
    FilterCalled =>
        \A i \in 1..Len(call.markets) :
            (call.markets[i] \in Range(call.kept))
               <=> /\ Eligible(call.markets[i])
                   /\ HalfCents(call.markets[i]) > 10
                   /\ HalfCents(call.markets[i]) < 190

\* C33, amended: a contract is kept iff it is eligible and its price is at
\* least 5 and at most 95 cents; the contracts kept stay in input order.
C33_PriceWithinBand ==
    FilterCalled =>
        /\ \A i \in 1..Len(call.markets) :
              (call.markets[i] \in Range(call.kept))
                 <=> /\ Eligible(call.markets[i])
                     /\ HalfCents(call.markets[i]) >= 10
                     /\ HalfCents(call.markets[i]) <= 190
        /\ call.kept = SelectSeq(call.markets,
                                 LAMBDA m : m \in Range(call.kept))

\* A contract kept at a midpoint of exactly 95 cents, under a category that
\* matches by containment.
C33_Witness ==
    /\ FilterCalled
    /\ Len(call.kept) = 2
    /\ call.kept[2].yesBid = 94
    /\ call.kept[2].yesAsk = 96
    /\ call.kept[2].category = "US Politics"
    /\ config.marketCategories # <<>>

\* C34: every signal generateSignals returned in a cycle is dispatched once,
\* in order, to the back end of the agent's mode: the paper ledger logs the
\* fills in that order, the live exchange has the orders that went through;
\* an order that failed is followed by the dispatch of the signals after it.
C34_EverySignalDispatched ==
    (call.op = "cycle" /\ GsCalled) =>
        /\ Len(call.execs) = Len(Gs.signals)
        /\ \A i \in 1..Len(call.execs) :
              /\ call.execs[i].ticker = Gs.signals[i].edge.ticker
              /\ call.execs[i].side = Gs.signals[i].side
              /\ call.execs[i].contracts = Gs.signals[i].contracts
              /\ call.execs[i].limitPrice = Gs.signals[i].limitPrice
              /\ (mode = "live" /\ call.execs[i].filled)
                    => call.execs[i].ticker \in ordered
        /\ mode = "paper" =>
              LET fills == SelectSeq(call.execs, LAMBDA e : e.filled)
                  base == Len(trades) - Len(fills)
              IN  /\ base >= 0
                  /\ \A k \in 1..Len(fills) :
                        /\ trades[base + k].ticker = fills[k].ticker
                        /\ trades[base + k].side = fills[k].side
                        /\ trades[base + k].contracts = fills[k].contracts
                        /\ trades[base + k].limitPrice = fills[k].limitPrice
        /\ mode = "live" => (trades = <<>> /\ positions = <<>>)

\* A live cycle whose first order failed and whose second went through.
C34_Witness ==
    /\ call.op = "cycle"
    /\ GsCalled
    /\ mode = "live"
    /\ Len(call.execs) >= 2
    /\ ~call.execs[1].filled
    /\ call.execs[2].filled
    /\ call.execs[2].ticker \in ordered

\* C35: a transient failure of the forecaster's upstream call, a rate-limited
\* response or a transport error, before the last attempt is followed by a
\* backoff and a retry of the same market, not by dropping it; after a
\* rate-limited response the wait is the retry-after hint when there is one,
\* else 15 s doubled per attempt and at most 120 s.
C35_TransientFailuresRetried ==
    \A k \in 1..Len(batch.log) :
        (/\ batch.log[k].ev = "response"
         /\ batch.log[k].status \in {"rate_limited", "transport"}
         /\ batch.log[k].attempt < MaxRetries)
            => /\ k < Len(batch.log)
               /\ batch.log[k + 1].ev = "backoff"
               /\ batch.log[k + 1].i = batch.log[k].i
               /\ batch.log[k + 1].ms =
                     IF batch.log[k].ms > 0 THEN batch.log[k].ms
                     ELSE IF 15000 * 2^batch.log[k].attempt < 120000
                          THEN 15000 * 2^batch.log[k].attempt ELSE 120000

\* The members of group g in a sequence of markets, in the sequence's order.
InGroup(ms, g) == SelectSeq(ms, LAMBDA m : GetMarketGroup(m) = g)

SelectGroups == {GetMarketGroup(m) : m \in Range(call.markets)}

\* C36: selectDiverseCandidates returns (so it terminated) min(count,
\* |markets|) different elements of markets; the members it took of a group
\* are in descending volume order and no member left behind has more volume
\* than one taken; and of two groups the one with fewer taken is at most one
\* behind, or has been taken whole.
C36_DiverseSelection ==
    call.op = "select" =>
        /\ Len(call.selected) = MinOf(call.count, Len(call.markets))
        /\ Range(call.selected) \subseteq Range(call.markets)
        /\ \A i, j \in 1..Len(call.selected) :
              i # j => call.selected[i] # call.selected[j]
        /\ \A g \in SelectGroups :
              LET taken == InGroup(call.selected, g)
                  left == Range(InGroup(call.markets, g)) \ Range(taken)
              IN  /\ \A a, b \in 1..Len(taken) :
                        a < b => taken[a].volume >= taken[b].volume
                  /\ \A a \in 1..Len(taken) :
                        \A m \in left : taken[a].volume >= m.volume
        /\ \A g, h \in SelectGroups :
              \/ Len(InGroup(call.selected, h))
                    - Len(InGroup(call.selected, g)) <= 1
              \/ Len(InGroup(call.selected, g)) = Len(InGroup(call.markets, g))

\* A selection in which a group taken whole is two behind another, whose
\* members were given with a lower volume first and came out by volume.
C36_Witness ==
    /\ call.op = "select"
    /\ \E g, h \in SelectGroups :
          /\ Len(InGroup(call.selected, h)) = 3
          /\ Len(InGroup(call.selected, g)) = 1
          /\ Len(InGroup(call.markets, g)) = 1
          /\ InGroup(call.markets, h)[1].volume < InGroup(call.markets, h)[3].volume
          /\ InGroup(call.selected, h)[1].volume > InGroup(call.selected, h)[3].volume

\* C37: whatever probability of YES in [0, 1] an estimate handed to
\* detectEdges carries, every edge it emits has modelProb within
\* [0.01, 0.99] (2 and 198 in units of 1/200).
C37_EdgesClamped ==
    call.op = "detectEdges" =>
        \A i \in 1..Len(call.edges) :
            /\ call.edges[i].modelProb >= 2
            /\ call.edges[i].modelProb <= 198

\* Whether sizePosition's test fullKelly <= 0 refuses model probability p at
\* cost, both in units of 1/ProbScale.
KellyRefusesAt(p, cost) ==
    KellyRefused(FullKelly(Rat(p, ProbScale), NetOdds(Rat(cost, ProbScale))))

\* Probabilities at the ends, around the middle and in between.
KellyGrid == {1, 2, 50, 99, 100, 101, 150, 198, 199}

\* C38 as claimed: there are a model probability p and a cost with
\* 0 < cost < 1 and p - cost > 0 at which fullKelly = (p*b - q)/b,
\* b = (1 - cost)/cost, is <= 0, so that a cycle's sizePosition has an edge
\* of positive raw edge to refuse.
C38_KellyRefusesPositiveEdge ==
    (call.op = "cycle" /\ GsCalled) =>
        \E p \in 1..(ProbScale - 1), cost \in 1..(ProbScale - 1) :
            p > cost /\ KellyRefusesAt(p, cost)

\* C38 (as amended): fullKelly <= 0 exactly when p <= cost, so no edge that
\* detectEdges emitted in a cycle (p - cost above the threshold, cost inside
\* (0, 1)) is refused by the Kelly test of sizePosition.
C38_KellySignIsEdgeSign ==
    (call.op = "cycle" /\ GsCalled) =>
        /\ \A i \in 1..Len(Gs.edges) :
              (Gs.edges[i].marketProb > 0 /\ Gs.edges[i].marketProb < ProbScale)
                  => /\ Gs.edges[i].modelProb > Gs.edges[i].marketProb
                     /\ ~KellyRefusesAt(Gs.edges[i].modelProb,
                                        Gs.edges[i].marketProb)
        /\ \A p \in KellyGrid, cost \in KellyGrid :
              KellyRefusesAt(p, cost) <=> p <= cost

\* A cycle whose detector emitted an edge with cost inside (0, 1) that was
\* sized into a signal.
C38_Witness ==
    /\ call.op = "cycle"
    /\ GsCalled
    /\ \E i \in 1..Len(Gs.edges) : \E j \in 1..Len(Gs.signals) :
          /\ Gs.signals[j].edge = Gs.edges[i]
          /\ Gs.edges[i].marketProb > 0
          /\ Gs.edges[i].marketProb < ProbScale
          /\ Gs.edges[i].modelProb > Gs.edges[i].marketProb

\* C39: in live mode a cycle places no order on a contract on which an
\* earlier cycle placed one, and the portfolio it sizes against counts the
\* exposure of the orders of earlier cycles.
C39_OnePositionPerMarketLive ==
    [][(mode = "live" /\ call'.op = "cycle" /\ call'.outcome = "done") =>
          /\ \A i \in 1..Len(call'.execs) :
                call'.execs[i].filled => call'.execs[i].ticker \notin ordered
          /\ ordered # {} => call'.gs.portfolio.totalExposureUsd > 0]_vars

\* C40: the paper ledger's cash never goes below zero, whatever execute and
\* settle calls were made, and its trade log holds filled records only: an
\* execute that did not fill leaves the log as it was.
C40_CashNeverNegative ==
    mode = "ledger" =>
        /\ balance >= 0
        /\ \A i \in 1..Len(trades) : trades[i].filled
        /\ (ExecuteCalled /\ ~call.record.filled) =>
              (trades = call.before.trades /\ balance = call.before.balance)
        /\ (ExecuteCalled /\ call.record.filled) =>
              /\ balance = call.before.balance - SignalCost(call.signal)
              /\ trades = Append(call.before.trades, call.record)

\* All cash spent, then an order refused: the log holds the fills only.
C40_Witness ==
    /\ mode = "ledger"
    /\ ExecuteCalled
    /\ ~call.record.filled
    /\ balance = 0
    /\ trades # <<>>

====
